---- MODULE Spec2Model ----
(***************************************************************************)
(* Model of the hotkey cycle navigator of EVE-L-Preview                   *)
(* (src/src/cycle_state.rs, struct CycleState).                           *)
(*                                                                         *)
(* The navigator keeps the configured character order (config_order), a   *)
(* 0-based cursor into it (current_index) and the map from character name *)
(* to the window currently showing that character (active_windows).       *)
(* Every public method of CycleState is one action below; each action is  *)
(* built from a pure operator that transforms a navigator record the way  *)
(* the method transforms `self`.                                          *)
(*                                                                         *)
(* Further down: the position resolver (src/src/persistence.rs), the      *)
(* per-character settings (src/src/config/persistent.rs), and the pointer *)
(* arms of handle_event (src/src/event_handler.rs) inside the loop of     *)
(* main (src/src/main.rs).  Each part has its own specification, in which *)
(* the variables of the other parts keep their initial values.            *)
(***************************************************************************)
EXTENDS Integers, Sequences, FiniteSets, TLC

\* ---------------------------------------------------------------- bounds

\* How many character names and window ids the model draws inputs from.
NumNames == 3
NumHandles == 2
\* Longest config_order handed to CycleState::new.
MaxInitLen == 1
\* Longest run of cycle_forward calls that the run bookkeeping follows.
MaxRun == 2

NameUniverse == <<"A", "B", "C", "D", "E">>
Names == {NameUniverse[i] : i \in 1..NumNames}
Windows == 1..NumHandles

\* Option<Window>::None.  X11 window ids are never 0.
None == 0

VARIABLES
    config_order,    \* Vec<String>: configured order
    current_index,   \* usize: 0-based index into config_order
    active_windows,  \* HashMap<String, Window>
    init_order,      \* history: the argument CycleState::new was called with
    live,            \* history: windows passed to add_window/update_character
                     \*          and not since passed to remove_window
    last,            \* history: the last call and what it returned
    run,             \* history: the current run of cycle_forward calls
                     \*          followed by cycle_backward calls
    track,           \* which of the histories are recorded
    window_positions,         \* SavedState: HashMap<Window, (i16, i16)>
    inherit_window_position,  \* SavedState: bool
    character_positions,      \* PersistentState: HashMap<String,
                              \*                  CharacterSettings>
    pcall,           \* history: the last call on SavedState or
                     \*          PersistentState and what it returned
    eves,            \* HashMap<Window, Thumbnail>: the tracked windows
    hide_when_no_focus,  \* config.hide_when_no_focus
    snap_threshold,  \* config.snap_threshold, in pixels
    outcome,         \* history: the last event of the main loop, the requests
                     \*          its handler made and how it ended
    running,         \* the main loop has not returned
    daemon,          \* ManagerApp.daemon: Option<Child>, the child's pid
    daemon_status,   \* ManagerApp.daemon_status
    status_message,  \* ManagerApp.status_message, by its kind
    window_visible,  \* ManagerApp.window_visible
    allow_close,     \* ManagerApp.allow_close
    tray,            \* ManagerApp._tray is Some
    tray_rx,         \* the commands waiting in the tray channel
    children,        \* the processes spawned so far, by pid: how each stands
    close_requested, \* the viewport has a close request for the next frame
    exiting,         \* the frame loop has ended; on_exit is due or done
    exited,          \* on_exit has returned
    frame            \* history: what the last frame did with a close
                     \*          request, and whether one was ever cancelled

navVars == <<config_order, current_index, active_windows, init_order, live,
             last, run, track>>
positionVars == <<window_positions, inherit_window_position,
                  character_positions, pcall>>
eventVars == <<eves, hide_when_no_focus, snap_threshold, outcome, running>>

managerVars == <<daemon, daemon_status, status_message, window_visible,
                 allow_close, tray, tray_rx, children, close_requested,
                 exiting, exited, frame>>

vars == <<navVars, positionVars, eventVars, managerVars>>

\* ------------------------------------------------------- pure operators

\* The navigator as one record, as the methods see `self`.
Nav(order, index, active) ==
    [config_order |-> order, current_index |-> index, active_windows |-> active]

Cur == Nav(config_order, current_index, active_windows)

\* HashMap::insert and HashMap::remove.
MapInsert(m, k, v) == [x \in (DOMAIN m) \cup {k} |-> IF x = k THEN v ELSE m[x]]
MapRemove(m, k) == [x \in (DOMAIN m) \ {k} |-> m[x]]

\* Vec::contains.
Contains(order, name) == \E i \in 1..Len(order) : order[i] = name

\* Iterator::position: the 0-based index of the first occurrence.
Position(order, name) ==
    CHOOSE i \in 0..(Len(order) - 1) :
        /\ order[i + 1] = name
        /\ \A j \in 0..(i - 1) : order[j + 1] # name

\* active_windows.iter().find(|&(_, &w)| w == window): the iteration order of
\* a HashMap is unspecified, so any entry holding the window may be the one
\* found.
FindByWindow(active, window) == {k \in DOMAIN active : active[k] = window}

\* CycleState::new
new(order) == Nav(order, 0, <<>>)

\* clamp_index with the comparison off by one: the last index is taken to
\* be out of range.
clamp_index_off_by_one(s) ==
    IF s.config_order # <<>> /\ s.current_index + 1 >= Len(s.config_order)
    THEN [s EXCEPT !.current_index = 0]
    ELSE s

\* CycleState::clamp_index
clamp_index(s) ==
    IF s.config_order # <<>> /\ s.current_index >= Len(s.config_order)
    THEN [s EXCEPT !.current_index = 0]
    ELSE s

\* add_window that leaves config_order as it is.
add_window_no_push(s, character_name, window) ==
    [s EXCEPT !.active_windows = MapInsert(@, character_name, window)]

\* add_window without the contains() test: the name is pushed every time.
add_window_always_push(s, character_name, window) ==
    [s EXCEPT
        !.active_windows = MapInsert(@, character_name, window),
        !.config_order = Append(@, character_name)]

\* CycleState::add_window
add_window(s, character_name, window) ==
    [s EXCEPT
        !.active_windows = MapInsert(@, character_name, window),
        !.config_order = IF Contains(@, character_name)
                         THEN @
                         ELSE Append(@, character_name)]

\* CycleState::remove_window: the set of states the call may leave.
remove_window(s, window) ==
    LET found == FindByWindow(s.active_windows, window) IN
    IF found = {}
    THEN {s}
    ELSE {clamp_index([s EXCEPT !.active_windows = MapRemove(@, name)]) :
            name \in found}

\* CycleState::update_character: the set of states the call may leave.
update_character(s, window, new_name) ==
    LET found == FindByWindow(s.active_windows, window)
        removed == IF found = {}
                   THEN {s}
                   ELSE {[s EXCEPT !.active_windows = MapRemove(@, old_name)] :
                            old_name \in found}
    IN {add_window(r, new_name, window) : r \in removed}

\* What a cycle call leaves: the new current_index, the returned
\* Option<Window>, the number of loop iterations, and whether the call
\* returns at all.
Outcome(index, ret, steps, returns) ==
    [index |-> index, ret |-> ret, steps |-> steps, returns |-> returns]

\* The loop of cycle_forward scanning with a local cursor that is not stored
\* back when a window is found.
RECURSIVE forward_loop_stale(_, _, _, _)
forward_loop_stale(s, start_index, index, steps) ==
    LET next == (index + 1) % Len(s.config_order)
        name == s.config_order[next + 1]
    IN  IF name \in DOMAIN s.active_windows
        THEN Outcome(start_index, s.active_windows[name], steps + 1, TRUE)
        ELSE IF next = start_index
        THEN Outcome(next, None, steps + 1, TRUE)
        ELSE IF steps + 1 >= Len(s.config_order)
        THEN Outcome(next, None, steps + 1, FALSE)
        ELSE forward_loop_stale(s, start_index, next, steps + 1)

\* cycle_forward without the loop: one step, and no target if the name
\* there has no window.
forward_loop_noskip(s, start_index, index, steps) ==
    LET next == (index + 1) % Len(s.config_order)
        name == s.config_order[next + 1]
    IN  IF name \in DOMAIN s.active_windows
        THEN Outcome(next, s.active_windows[name], steps + 1, TRUE)
        ELSE Outcome(next, None, steps + 1, TRUE)

\* The loop of cycle_forward stopping at the last index instead of
\* wrapping to the first.
RECURSIVE forward_loop_saturating(_, _, _, _)
forward_loop_saturating(s, start_index, index, steps) ==
    LET next == IF index + 1 >= Len(s.config_order)
                THEN Len(s.config_order) - 1
                ELSE index + 1
        name == s.config_order[next + 1]
    IN  IF name \in DOMAIN s.active_windows
        THEN Outcome(next, s.active_windows[name], steps + 1, TRUE)
        ELSE IF next = start_index
        THEN Outcome(next, None, steps + 1, TRUE)
        ELSE IF steps + 1 >= Len(s.config_order)
        THEN Outcome(next, None, steps + 1, FALSE)
        ELSE forward_loop_saturating(s, start_index, next, steps + 1)

\* The loop of cycle_forward, entered with current_index = index after
\* `steps` iterations.  The loop leaves only through one of its two returns;
\* once it has made Len(config_order) iterations without leaving it has
\* seen every index, so neither return can ever be taken and the call does
\* not return.
RECURSIVE forward_loop(_, _, _, _)
forward_loop(s, start_index, index, steps) ==
    LET next == (index + 1) % Len(s.config_order)
        name == s.config_order[next + 1]
    IN  IF name \in DOMAIN s.active_windows
        THEN Outcome(next, s.active_windows[name], steps + 1, TRUE)
        ELSE IF next = start_index
        THEN Outcome(next, None, steps + 1, TRUE)
        ELSE IF steps + 1 >= Len(s.config_order)
        THEN Outcome(next, None, steps + 1, FALSE)
        ELSE forward_loop(s, start_index, next, steps + 1)

\* cycle_forward resetting the cursor when there is nothing to cycle.
cycle_forward_reset(s) ==
    IF DOMAIN s.active_windows = {}
    THEN Outcome(0, None, 0, TRUE)
    ELSE IF s.config_order = <<>>
    THEN Outcome(0, None, 0, TRUE)
    ELSE forward_loop(s, s.current_index, s.current_index, 0)

\* CycleState::cycle_forward
cycle_forward(s) ==
    IF DOMAIN s.active_windows = {}
    THEN Outcome(s.current_index, None, 0, TRUE)
    ELSE IF s.config_order = <<>>
    THEN Outcome(s.current_index, None, 0, TRUE)
    ELSE forward_loop(s, s.current_index, s.current_index, 0)

\* cycle_backward without the loop: one step, and no target if the name
\* there has no window.
backward_loop_noskip(s, start_index, index, steps) ==
    LET next == IF index = 0 THEN Len(s.config_order) - 1 ELSE index - 1
        name == s.config_order[next + 1]
    IN  IF name \in DOMAIN s.active_windows
        THEN Outcome(next, s.active_windows[name], steps + 1, TRUE)
        ELSE Outcome(next, None, steps + 1, TRUE)

\* The loop of cycle_backward saturating at index 0 instead of wrapping to
\* the last index.
RECURSIVE backward_loop_nowrap(_, _, _, _)
backward_loop_nowrap(s, start_index, index, steps) ==
    LET next == IF index = 0 THEN 0 ELSE index - 1
        name == s.config_order[next + 1]
    IN  IF name \in DOMAIN s.active_windows
        THEN Outcome(next, s.active_windows[name], steps + 1, TRUE)
        ELSE IF next = start_index
        THEN Outcome(next, None, steps + 1, TRUE)
        ELSE IF steps + 1 >= Len(s.config_order)
        THEN Outcome(next, None, steps + 1, FALSE)
        ELSE backward_loop_nowrap(s, start_index, next, steps + 1)

\* The loop of cycle_backward.
RECURSIVE backward_loop(_, _, _, _)
backward_loop(s, start_index, index, steps) ==
    LET next == IF index = 0 THEN Len(s.config_order) - 1 ELSE index - 1
        name == s.config_order[next + 1]
    IN  IF name \in DOMAIN s.active_windows
        THEN Outcome(next, s.active_windows[name], steps + 1, TRUE)
        ELSE IF next = start_index
        THEN Outcome(next, None, steps + 1, TRUE)
        ELSE IF steps + 1 >= Len(s.config_order)
        THEN Outcome(next, None, steps + 1, FALSE)
        ELSE backward_loop(s, start_index, next, steps + 1)

\* CycleState::cycle_backward
cycle_backward(s) ==
    IF DOMAIN s.active_windows = {}
    THEN Outcome(s.current_index, None, 0, TRUE)
    ELSE IF s.config_order = <<>>
    THEN Outcome(s.current_index, None, 0, TRUE)
    ELSE backward_loop(s, s.current_index, s.current_index, 0)

\* set_current storing the 1-based position.
set_current_one_based(s, character_name) ==
    IF Contains(s.config_order, character_name)
    THEN [index |-> Position(s.config_order, character_name) + 1, ok |-> TRUE]
    ELSE [index |-> s.current_index, ok |-> FALSE]

\* set_current falling back to index 0 for a name that is not in the order.
set_current_unchecked(s, character_name) ==
    IF Contains(s.config_order, character_name)
    THEN [index |-> Position(s.config_order, character_name), ok |-> TRUE]
    ELSE [index |-> 0, ok |-> FALSE]

\* CycleState::set_current: the new current_index and the returned bool.
set_current(s, character_name) ==
    IF Contains(s.config_order, character_name)
    THEN [index |-> Position(s.config_order, character_name), ok |-> TRUE]
    ELSE [index |-> s.current_index, ok |-> FALSE]

\* ------------------------------------------------------------- history

Called(op, ret, ok) == [op |-> op, ret |-> ret, ok |-> ok]

\* The last call, after a call of `op` that returned `ret` (an
\* Option<Window>) or `ok` (a bool).
Last(op, ret, ok) == IF "last" \in track THEN Called(op, ret, ok) ELSE last

NoRun == [start |-> 0, anchored |-> FALSE, fwd |-> 0, back |-> 0]

\* The name under the cursor has a window, or no name has one.
Anchored(s) ==
    \/ DOMAIN s.active_windows = {}
    \/ /\ s.current_index < Len(s.config_order)
       /\ s.config_order[s.current_index + 1] \in DOMAIN s.active_windows

\* A cycle_forward call extends the run while it is still in its forward
\* phase and shorter than MaxRun, and starts a new run otherwise.
RunForward ==
    IF "run" \notin track
    THEN run
    ELSE IF run.fwd > 0 /\ run.back = 0 /\ run.fwd < MaxRun
    THEN [run EXCEPT !.fwd = @ + 1]
    ELSE [start |-> current_index, anchored |-> Anchored(Cur), fwd |-> 1, back |-> 0]

\* A cycle_backward call counts against the forward calls of the run; with
\* none left to undo the run is over.
RunBackward ==
    IF "run" \notin track
    THEN run
    ELSE IF run.fwd > 0 /\ run.back < run.fwd
    THEN [run EXCEPT !.back = @ + 1]
    ELSE NoRun

\* The windows added and not removed, after a call that adds `added` and
\* removes `removed`.
Live(added, removed) ==
    IF "live" \in track THEN (live \ removed) \cup added ELSE live

\* -------------------------------------------------------------- actions

SetNav(s) ==
    /\ config_order' = s.config_order
    /\ current_index' = s.current_index
    /\ active_windows' = s.active_windows

\* ------------------------------------------------------------ positions
\* SavedState (src/src/persistence.rs) and PersistentState
\* (src/src/config/persistent.rs).

\* How many distinct (i16, i16) positions the model draws inputs from.
NumPositions == 2
Positions == {<<10 * i, 20 * i>> : i \in 1..NumPositions}

\* The names positions are kept for; "" is the name of a logged-out window.
Characters == {"", NameUniverse[1], NameUniverse[2]}

\* Option<(i16, i16)>::None and Option<Position>::None.
NonePos == <<>>

\* Thumbnail dimensions (u16, u16) passed by the caller of a save, and the
\* dimensions of a record read from the configuration file without them
\* (#[serde(default)], 0 = use auto-detect).
CurrentDims == <<2, 1>>
DefaultDims == <<0, 0>>

\* CharacterSettings::new
CharacterSettings(x, y, width, height) ==
    [x |-> x, y |-> y, width |-> width, height |-> height]

\* CharacterSettings::position followed by Position::as_tuple
position(settings) == <<settings.x, settings.y>>

\* The persisted positions as get_position receives them.
as_tuples(positions) == [n \in DOMAIN positions |-> position(positions[n])]

\* SavedState as one record, as get_position sees `self`.
Saved == [window_positions |-> window_positions,
          inherit_window_position |-> inherit_window_position]

\* get_position with the two name branches exchanged.
get_position_swapped(self, character_name, window, positions) ==
    IF character_name = ""
    THEN IF character_name \in DOMAIN positions
         THEN positions[character_name]
         ELSE NonePos
    ELSE IF window \in DOMAIN self.window_positions
         THEN self.window_positions[window]
         ELSE NonePos

\* get_position that looks the empty name up like any other name.
get_position_any_name(self, character_name, window, positions) ==
    IF character_name \in DOMAIN positions
    THEN positions[character_name]
    ELSE IF window \in DOMAIN self.window_positions
         THEN self.window_positions[window]
         ELSE NonePos

\* get_position that inherits the window position whatever the policy.
get_position_always_inherit(self, character_name, window, positions) ==
    IF character_name # "" /\ character_name \in DOMAIN positions
    THEN positions[character_name]
    ELSE IF window \in DOMAIN self.window_positions
         THEN self.window_positions[window]
         ELSE NonePos

\* SavedState::get_position
get_position(self, character_name, window, positions) ==
    IF character_name # ""
    THEN IF character_name \in DOMAIN positions
         THEN positions[character_name]
         ELSE IF /\ self.inherit_window_position
                 /\ window \in DOMAIN self.window_positions
              THEN self.window_positions[window]
              ELSE NonePos
    ELSE IF window \in DOMAIN self.window_positions
         THEN self.window_positions[window]
         ELSE NonePos

\* SavedState::update_window_position
update_window_position(self, window, x, y) ==
    [self EXCEPT !.window_positions = MapInsert(@, window, <<x, y>>)]

\* What a call on PersistentState leaves: the map, whether save() was
\* called and how it ended, the Result and the Option inside an Ok.
Persisted(positions, save, ok, ret) ==
    [character_positions |-> positions, save |-> save, ok |-> ok, ret |-> ret]

\* PersistentState::save as its callers see it: "ok" or "failed".
Save(written) == IF written THEN "ok" ELSE "failed"

\* update_position that records the geometry only once it is written.
update_position_after_save(positions, character_name, x, y, width, height, written) ==
    IF character_name # ""
    THEN Persisted(IF written
                   THEN MapInsert(positions, character_name,
                                  CharacterSettings(x, y, width, height))
                   ELSE positions,
                   Save(written), written, NonePos)
    ELSE Persisted(positions, "none", TRUE, NonePos)

\* PersistentState::update_position; written says whether save() succeeds.
update_position(positions, character_name, x, y, width, height, written) ==
    IF character_name # ""
    THEN Persisted(MapInsert(positions, character_name,
                             CharacterSettings(x, y, width, height)),
                   Save(written), written, NonePos)
    ELSE Persisted(positions, "none", TRUE, NonePos)

\* handle_character_change that calls save() before it records old_name.
handle_character_change_save_first(positions, old_name, new_name, current_position, current_width, current_height, written) ==
    LET recorded == IF old_name # "" /\ written
                    THEN MapInsert(positions, old_name,
                                   CharacterSettings(current_position[1],
                                                     current_position[2],
                                                     current_width,
                                                     current_height))
                    ELSE positions
    IN  IF ~written
        THEN Persisted(recorded, "failed", FALSE, NonePos)
        ELSE IF new_name # "" /\ new_name \in DOMAIN recorded
             THEN Persisted(recorded, "ok", TRUE, position(recorded[new_name]))
             ELSE Persisted(recorded, "ok", TRUE, NonePos)

\* handle_character_change that looks new_name up in the map as it was
\* before old_name was recorded.
handle_character_change_lookup_first(positions, old_name, new_name, current_position, current_width, current_height, written) ==
    LET recorded == IF old_name # ""
                    THEN MapInsert(positions, old_name,
                                   CharacterSettings(current_position[1],
                                                     current_position[2],
                                                     current_width,
                                                     current_height))
                    ELSE positions
    IN  IF ~written
        THEN Persisted(recorded, "failed", FALSE, NonePos)
        ELSE IF new_name # "" /\ new_name \in DOMAIN positions
             THEN Persisted(recorded, "ok", TRUE, position(positions[new_name]))
             ELSE Persisted(recorded, "ok", TRUE, NonePos)

\* PersistentState::handle_character_change; written says whether save()
\* succeeds.
handle_character_change(positions, old_name, new_name, current_position, current_width, current_height, written) ==
    LET recorded == IF old_name # ""
                    THEN MapInsert(positions, old_name,
                                   CharacterSettings(current_position[1],
                                                     current_position[2],
                                                     current_width,
                                                     current_height))
                    ELSE positions
    IN  IF ~written
        THEN Persisted(recorded, "failed", FALSE, NonePos)
        ELSE IF new_name # "" /\ new_name \in DOMAIN recorded
             THEN Persisted(recorded, "ok", TRUE, position(recorded[new_name]))
             ELSE Persisted(recorded, "ok", TRUE, NonePos)

\* The last call on SavedState or PersistentState: its arguments, what it
\* read from the persisted map, and what it returned.
PCalled(op, name, new_name, window, geometry, save, ok, ret) ==
    [op |-> op, name |-> name, new_name |-> new_name, window |-> window,
     geometry |-> geometry, save |-> save, ok |-> ok, ret |-> ret]

NoCall == PCalled("none", "", "", None, <<>>, "none", TRUE, NonePos)

\* SavedState::new() and an empty PersistentState, untouched.
PositionsIdle ==
    /\ window_positions = <<>>
    /\ inherit_window_position = FALSE
    /\ character_positions = <<>>
    /\ pcall = NoCall

\* --------------------------------------------------------------- events
\* handle_event (src/src/event_handler.rs) and the loop of main
\* (src/src/main.rs) that feeds it.

\* The pointer positions (root_x, root_y) events are drawn from.
MaxX == 2
MaxY == 1
PointerXs == 0..MaxX
PointerYs == 0..MaxY

\* event.detail of a button event: 1 is the primary button.
Buttons == {1, 3}

\* Arithmetic on i16 as a release build computes it.
I16(n) == ((n + 32768) % 65536) - 32768

\* InputState of a thumbnail.
InputState(dragging, drag_start, win_start) ==
    [dragging |-> dragging, drag_start |-> drag_start, win_start |-> win_start]

\* A thumbnail as Thumbnail::new leaves it, at (x, y).
Thumbnail(character_name, x, y, visible) ==
    [character_name |-> character_name, x |-> x, y |-> y,
     visible |-> visible, focused |-> FALSE, minimized |-> FALSE,
     input_state |-> InputState(FALSE, <<0, 0>>, <<0, 0>>)]

\* Thumbnail::is_hovered: the thumbnail's bounds contain (x, y).
is_hovered(thumbnail, x, y) ==
    /\ x >= thumbnail.x
    /\ x <= thumbnail.x + CurrentDims[1]
    /\ y >= thumbnail.y
    /\ y <= thumbnail.y + CurrentDims[2]

\* No call of border().
NoBorder == <<>>

\* default_snap_threshold(), in pixels; 0 disables snapping.
default_snap_threshold == 15

\* What handling one event leaves: the registry, the thumbnail found, the
\* window focus() was called for, the position reposition() was called
\* with, the <<window, flag>> border() was called with, and the Result.
Effect(registry, target, focus, reposition, result) ==
    [eves |-> registry, target |-> target, focus |-> focus,
     reposition |-> reposition, border |-> NoBorder, result |-> result]

Ignored(registry) == Effect(registry, None, None, NonePos, "Ok")

\* button_press that starts a drag of every visible thumbnail under the
\* pointer.
button_press_every_match(registry, x, y) ==
    LET found == {w \in DOMAIN registry :
                    is_hovered(registry[w], x, y) /\ registry[w].visible}
    IN  IF found = {}
        THEN {Ignored(registry)}
        ELSE UNION {
               {Effect([v \in DOMAIN registry |->
                          IF v \in found
                          THEN [registry[v] EXCEPT !.input_state =
                                  InputState(TRUE, <<x, y>>,
                                             <<registry[v].x, registry[v].y>>)]
                          ELSE registry[v]],
                       w, None, NonePos, "Ok"),
                Effect(registry, w, None, NonePos, "Err")} : w \in found}

\* handle_event, arm ButtonPress: the set of effects the event may have.
\* find() takes the first match in the map's iteration order, which is any
\* match; the geometry request either replies or fails.
button_press(registry, x, y) ==
    LET found == {w \in DOMAIN registry :
                    is_hovered(registry[w], x, y) /\ registry[w].visible}
    IN  IF found = {}
        THEN {Ignored(registry)}
        ELSE UNION {
               {Effect([registry EXCEPT ![w].input_state =
                          InputState(TRUE, <<x, y>>,
                                     <<registry[w].x, registry[w].y>>)],
                       w, None, NonePos, "Ok"),
                Effect(registry, w, None, NonePos, "Err")} : w \in found}

\* button_release that raises on every release of the primary button.
button_release_any_position(registry, x, y, detail) ==
    LET found == {w \in DOMAIN registry :
                    /\ is_hovered(registry[w], x, y)
                    /\ registry[w].input_state.dragging}
        idle(w) == [registry EXCEPT ![w].input_state.dragging = FALSE]
    IN  IF found = {}
        THEN {Ignored(registry)}
        ELSE UNION {
               IF detail = 1
               THEN {Effect(idle(w), w, w, NonePos, "Ok"),
                     Effect(registry, w, w, NonePos, "Err")}
               ELSE {Effect(idle(w), w, None, NonePos, "Ok")} : w \in found}

\* handle_event, arm ButtonRelease: focus() either succeeds or fails, and
\* its failure returns before dragging is cleared.
button_release(registry, x, y, detail) ==
    LET found == {w \in DOMAIN registry :
                    /\ is_hovered(registry[w], x, y)
                    /\ registry[w].input_state.dragging}
        idle(w) == [registry EXCEPT ![w].input_state.dragging = FALSE]
    IN  IF found = {}
        THEN {Ignored(registry)}
        ELSE UNION {
               IF /\ detail = 1
                  /\ registry[w].input_state.drag_start = <<x, y>>
               THEN {Effect(idle(w), w, w, NonePos, "Ok"),
                     Effect(registry, w, w, NonePos, "Err")}
               ELSE {Effect(idle(w), w, None, NonePos, "Ok")} : w \in found}

\* motion_notify that adds the pointer delta to the current position.
motion_notify_from_current(registry, x, y) ==
    LET found == {w \in DOMAIN registry :
                    /\ registry[w].input_state.dragging
                    /\ is_hovered(registry[w], x, y)}
    IN  IF found = {}
        THEN {Ignored(registry)}
        ELSE UNION {
               LET input == registry[w].input_state
                   dx == I16(x - input.drag_start[1])
                   dy == I16(y - input.drag_start[2])
                   new_x == I16(registry[w].x + dx)
                   new_y == I16(registry[w].y + dy)
               IN  {Effect([registry EXCEPT ![w].x = new_x, ![w].y = new_y],
                           w, None, <<new_x, new_y>>, "Ok"),
                    Effect(registry, w, None, <<new_x, new_y>>, "Err")}
               : w \in found}

\* motion_notify that lines the thumbnail up with a thumbnail one pixel
\* to its left or right, whatever the threshold.
motion_notify_snap_to_peer(registry, x, y) ==
    LET found == {w \in DOMAIN registry :
                    /\ registry[w].input_state.dragging
                    /\ is_hovered(registry[w], x, y)}
    IN  IF found = {}
        THEN {Ignored(registry)}
        ELSE UNION {
               LET input == registry[w].input_state
                   dx == I16(x - input.drag_start[1])
                   dy == I16(y - input.drag_start[2])
                   free_x == I16(input.win_start[1] + dx)
                   peers == {registry[v].x : v \in DOMAIN registry \ {w}}
                   near == {p \in peers : p - free_x \in {-1, 1}}
                   new_x == IF near = {}
                            THEN free_x
                            ELSE CHOOSE p \in near : \A q \in near : p <= q
                   new_y == I16(input.win_start[2] + dy)
               IN  {Effect([registry EXCEPT ![w].x = new_x, ![w].y = new_y],
                           w, None, <<new_x, new_y>>, "Ok"),
                    Effect(registry, w, None, <<new_x, new_y>>, "Err")}
               : w \in found}

\* handle_event, arm MotionNotify: reposition() either moves the thumbnail
\* or fails.
motion_notify(registry, x, y) ==
    LET found == {w \in DOMAIN registry :
                    /\ registry[w].input_state.dragging
                    /\ is_hovered(registry[w], x, y)}
    IN  IF found = {}
        THEN {Ignored(registry)}
        ELSE UNION {
               LET input == registry[w].input_state
                   dx == I16(x - input.drag_start[1])
                   dy == I16(y - input.drag_start[2])
                   new_x == I16(input.win_start[1] + dx)
                   new_y == I16(input.win_start[2] + dy)
               IN  {Effect([registry EXCEPT ![w].x = new_x, ![w].y = new_y],
                           w, None, <<new_x, new_y>>, "Ok"),
                    Effect(registry, w, None, <<new_x, new_y>>, "Err")}
               : w \in found}

\* Where Thumbnail::new puts a thumbnail that has no position to start
\* from: the centre of the screen, the origin of the model's coordinates.
Centre == <<0, 0>>

\* Thumbnail::new(ctx, character_name, window, font, position)
new_thumbnail(character_name, pos) ==
    IF pos = NonePos
    THEN Thumbnail(character_name, Centre[1], Centre[2], TRUE)
    ELSE Thumbnail(character_name, pos[1], pos[2], TRUE)

\* is_window_eve(conn, window, atoms): Err, Ok(None), or Ok(Some(name)).
IsWindowEve(ok, eve, name) == [ok |-> ok, eve |-> eve, name |-> name]

IsWindowEveResults ==
    {IsWindowEve(FALSE, FALSE, ""), IsWindowEve(TRUE, FALSE, "")}
      \cup {IsWindowEve(TRUE, TRUE, NameUniverse[1]),
            IsWindowEve(TRUE, TRUE, "")}

\* What /proc/{pid}/exe says about the window's process: running through
\* wine, determinably not, or not determinable.
WineResults == {"wine", "other", "unknown"}

\* What the reply to the _NET_WM_PID request holds: no reply, an empty
\* value, or a process id; and what /proc/{pid}/exe links to, when it can
\* be read.
PidProperties == {"no_reply", "unset", "pid"}
ExeLinks == {"unreadable", "wine64-preloader", "wine-preloader", "other"}

\* The process check that rejects a window whose process cannot be
\* determined.
wine_check_strict(prop, exe) ==
    IF prop = "pid" /\ exe \in {"wine64-preloader", "wine-preloader"}
    THEN "wine"
    ELSE "other"

\* check_and_create_window, the process check: read_link(..).map(contains
\* a preloader).unwrap_or(true) for a window with a process id, and no
\* check without one.
wine_check(prop, exe) ==
    IF prop # "pid"
    THEN "unknown"
    ELSE IF exe = "unreadable"
    THEN "unknown"
    ELSE IF exe \in {"wine64-preloader", "wine-preloader"}
    THEN "wine"
    ELSE "other"

\* Result<Option<Thumbnail>>
Created(ok, some, thumbnail) ==
    [ok |-> ok, some |-> some, thumbnail |-> thumbnail]

\* check_and_create_window that gives every thumbnail no position to
\* start from.
check_and_create_window_centred(self, positions, window, wine, probe, requests_ok) ==
    IF ~requests_ok
    THEN Created(FALSE, FALSE, <<>>)
    ELSE IF wine = "other"
    THEN Created(TRUE, FALSE, <<>>)
    ELSE IF ~probe.ok
    THEN Created(FALSE, FALSE, <<>>)
    ELSE IF probe.eve
    THEN Created(TRUE, TRUE, new_thumbnail(probe.name, NonePos))
    ELSE Created(TRUE, FALSE, <<>>)

\* check_and_create_window: requests_ok says whether every X request and
\* Thumbnail::new succeed; wine and probe are what the process check and
\* is_window_eve find.
check_and_create_window(self, positions, window, wine, probe, requests_ok) ==
    IF ~requests_ok
    THEN Created(FALSE, FALSE, <<>>)
    ELSE IF wine = "other"
    THEN Created(TRUE, FALSE, <<>>)
    ELSE IF ~probe.ok
    THEN Created(FALSE, FALSE, <<>>)
    ELSE IF probe.eve
    THEN Created(TRUE, TRUE,
                 new_thumbnail(probe.name,
                               get_position(self, probe.name, window,
                                            as_tuples(positions))))
    ELSE Created(TRUE, FALSE, <<>>)

Failed(registry, target) == Effect(registry, target, None, NonePos, "Err")
Done(registry, target) == Effect(registry, target, None, NonePos, "Ok")
WithBorder(effect, window, flag) ==
    [effect EXCEPT !.border = <<window, flag>>]

\* handle_event, arm CreateNotify; created is what
\* check_and_create_window returned.
create_notify(registry, window, created) ==
    IF ~created.ok
    THEN Failed(registry, None)
    ELSE IF created.some
    THEN Done(MapInsert(registry, window, created.thumbnail), window)
    ELSE Ignored(registry)

\* destroy_notify that empties the registry.
destroy_notify_clear(registry, window) ==
    IF window \in DOMAIN registry
    THEN Done(<<>>, window)
    ELSE Ignored(registry)

\* handle_event, arm DestroyNotify
destroy_notify(registry, window) ==
    IF window \in DOMAIN registry
    THEN Done(MapRemove(registry, window), window)
    ELSE Ignored(registry)

\* property_notify that builds a tracked window's thumbnail anew on a
\* change of name.
property_notify_rebuild(registry, window, atom, probe, created, hidden, requests_ok) ==
    IF atom = "wm_name" /\ ~created.ok
    THEN Failed(registry, None)
    ELSE IF atom = "wm_name" /\ created.some
    THEN Done(MapInsert(registry, window, created.thumbnail), window)
    ELSE IF atom = "net_wm_state" /\ window \in DOMAIN registry
    THEN IF ~requests_ok
         THEN Failed(registry, window)
         ELSE IF hidden
         THEN Done([registry EXCEPT ![window].minimized = TRUE], window)
         ELSE Done(registry, window)
    ELSE Ignored(registry)

\* property_notify that takes the window's state as its flag, hidden or
\* not.
property_notify_state_as_flag(registry, window, atom, probe, created, hidden, requests_ok) ==
    IF atom = "wm_name" /\ window \in DOMAIN registry /\ ~probe.ok
    THEN Failed(registry, window)
    ELSE IF atom = "wm_name" /\ window \in DOMAIN registry /\ probe.eve
    THEN LET renamed ==
               [registry EXCEPT ![window].character_name = probe.name]
         IN  IF requests_ok
             THEN Done(renamed, window)
             ELSE Failed(renamed, window)
    ELSE IF atom = "wm_name" /\ ~created.ok
    THEN Failed(registry, None)
    ELSE IF atom = "wm_name" /\ created.some
    THEN Done(MapInsert(registry, window, created.thumbnail), window)
    ELSE IF atom = "net_wm_state" /\ window \in DOMAIN registry
    THEN IF ~requests_ok
         THEN Failed(registry, window)
         ELSE Done([registry EXCEPT ![window].minimized = hidden], window)
    ELSE Ignored(registry)

\* handle_event, arm PropertyNotify.  probe is what is_window_eve finds,
\* created what check_and_create_window returns, hidden whether the
\* window's _NET_WM_STATE holds _NET_WM_STATE_HIDDEN; requests_ok says
\* whether the other requests of the arm succeed.
property_notify(registry, window, atom, probe, created, hidden, requests_ok) ==
    IF atom = "wm_name" /\ window \in DOMAIN registry /\ ~probe.ok
    THEN Failed(registry, window)
    ELSE IF atom = "wm_name" /\ window \in DOMAIN registry /\ probe.eve
    THEN LET renamed ==
               [registry EXCEPT ![window].character_name = probe.name]
         IN  IF requests_ok
             THEN Done(renamed, window)
             ELSE Failed(renamed, window)
    ELSE IF atom = "wm_name" /\ ~created.ok
    THEN Failed(registry, None)
    ELSE IF atom = "wm_name" /\ created.some
    THEN Done(MapInsert(registry, window, created.thumbnail), window)
    ELSE IF atom = "net_wm_state" /\ window \in DOMAIN registry
    THEN IF ~requests_ok
         THEN Failed(registry, window)
         ELSE IF hidden
         THEN Done([registry EXCEPT ![window].minimized = TRUE], window)
         ELSE Done(registry, window)
    ELSE Ignored(registry)

\* The registry after visibility(flag) on the thumbnails in done.
Shown(registry, done, flag) ==
    [w \in DOMAIN registry |->
       IF w \in done
       THEN [registry[w] EXCEPT !.visible = flag]
       ELSE registry[w]]

\* The effects of `for thumbnail in eves.values_mut() {
\* thumbnail.visibility(flag)?; }`: every thumbnail is done, or the call
\* fails after the thumbnails in done, in the map's iteration order.
visibility_all(registry, window, border, flag) ==
    {WithBorder(IF done = DOMAIN registry
                THEN Done(Shown(registry, done, flag), window)
                ELSE Failed(Shown(registry, done, flag), window),
                window, border) : done \in SUBSET DOMAIN registry}

\* focus_in that shows only the window that gained the focus.
focus_in_shows_one(registry, hide, window) ==
    IF window \notin DOMAIN registry
    THEN {Ignored(registry)}
    ELSE LET focused == [registry EXCEPT ![window].minimized = FALSE,
                                         ![window].focused = TRUE]
         IN  {WithBorder(Failed(focused, window), window, TRUE)}
               \cup IF hide /\ \E w \in DOMAIN focused : ~focused[w].visible
                    THEN {WithBorder(Done(Shown(focused, {window}, TRUE),
                                          window), window, TRUE)}
                    ELSE {WithBorder(Done(focused, window), window, TRUE)}

\* handle_event, arm FocusIn: the set of effects the event may have.
focus_in(registry, hide, window) ==
    IF window \notin DOMAIN registry
    THEN {Ignored(registry)}
    ELSE LET focused == [registry EXCEPT ![window].minimized = FALSE,
                                         ![window].focused = TRUE]
         IN  {WithBorder(Failed(focused, window), window, TRUE)}
               \cup IF hide /\ \E w \in DOMAIN focused : ~focused[w].visible
                    THEN visibility_all(focused, window, TRUE, TRUE)
                    ELSE {WithBorder(Done(focused, window), window, TRUE)}

\* focus_out that applies the hide policy for an untracked window too.
focus_out_untracked_hides(registry, hide, window) ==
    LET unfocused == IF window \in DOMAIN registry
                     THEN [registry EXCEPT ![window].focused = FALSE]
                     ELSE registry
        policy == IF /\ hide
                     /\ \A w \in DOMAIN unfocused :
                           ~unfocused[w].focused /\ ~unfocused[w].minimized
                  THEN visibility_all(unfocused, window, FALSE, FALSE)
                  ELSE {WithBorder(Done(unfocused, window), window, FALSE)}
    IN  IF window \in DOMAIN registry
        THEN {WithBorder(Failed(unfocused, window), window, FALSE)}
               \cup policy
        ELSE {[effect EXCEPT !.target = None, !.border = NoBorder] :
                 effect \in policy}

\* focus_out that leaves minimized windows out of the check.
focus_out_skips_minimized(registry, hide, window) ==
    IF window \notin DOMAIN registry
    THEN {Ignored(registry)}
    ELSE LET unfocused == [registry EXCEPT ![window].focused = FALSE]
         IN  {WithBorder(Failed(unfocused, window), window, FALSE)}
               \cup IF /\ hide
                       /\ \A w \in DOMAIN unfocused : ~unfocused[w].focused
                    THEN visibility_all(unfocused, window, FALSE, FALSE)
                    ELSE {WithBorder(Done(unfocused, window), window, FALSE)}

\* handle_event, arm FocusOut: the set of effects the event may have.
focus_out(registry, hide, window) ==
    IF window \notin DOMAIN registry
    THEN {Ignored(registry)}
    ELSE LET unfocused == [registry EXCEPT ![window].focused = FALSE]
         IN  {WithBorder(Failed(unfocused, window), window, FALSE)}
               \cup IF /\ hide
                       /\ \A w \in DOMAIN unfocused :
                             ~unfocused[w].focused /\ ~unfocused[w].minimized
                    THEN visibility_all(unfocused, window, FALSE, FALSE)
                    ELSE {WithBorder(Done(unfocused, window), window, FALSE)}

\* handle_event, arm DamageNotify: the thumbnail whose damage object is
\* event.damage is redrawn; the damage object of a window is named by the
\* window.
damage_notify(registry, damage, requests_ok) ==
    LET found == {w \in DOMAIN registry : w = damage}
    IN  IF found = {}
        THEN {Ignored(registry)}
        ELSE {IF requests_ok
              THEN Done(registry, w)
              ELSE Failed(registry, w) : w \in found}

\* A loop that returns the handler's error with `?`.
propagate(result) == [logged |-> FALSE, running |-> result = "Ok"]

\* main, the loop body after wait_for_event: the handler's error is logged
\* by inspect_err and dropped by `let _ =`.
inspect_err(result) == [logged |-> result = "Err", running |-> TRUE]

\* The last event taken by the loop and what its handler did.
\* previous is the Result of the event taken before this one, recorded
\* when track names it.
Previous == IF "previous" \in track THEN outcome.result ELSE "Ok"

\* History: what the process check of the turn read; nothing, when the
\* turn made none or it is not recorded.
NoProcess == <<>>

\* History: a window was destroyed while it was dragging, and only
\* MotionNotify events have been taken since.
MidDrag(event, effect) ==
    IF "mid_drag" \in track
    THEN \/ /\ event = "DestroyNotify"
            /\ effect.target \in DOMAIN eves
            /\ eves[effect.target].input_state.dragging
         \/ outcome.mid_drag /\ event = "MotionNotify"
    ELSE FALSE

Handled(event, effect) ==
    [event |-> event, target |-> effect.target, focus |-> effect.focus,
     reposition |-> effect.reposition, border |-> effect.border,
     result |-> effect.result,
     logged |-> inspect_err(effect.result).logged,
     previous |-> Previous,
     mid_drag |-> MidDrag(event, effect),
     process |-> NoProcess]

NoEvent == [event |-> "none", target |-> None, focus |-> None,
            reposition |-> NonePos, border |-> NoBorder, result |-> "Ok",
            logged |-> FALSE, previous |-> "Ok", mid_drag |-> FALSE,
            process |-> NoProcess]

\* ---------------------------------------------- the manager (gui/manager.rs)

\* Option<Child>::None; a held child is named by its pid, 1 and up.
NoChild == 0

\* ExitStatus::code() of a process that a signal ended.
NoCode == -1

\* The capacity of the tray channel, mpsc::sync_channel(4).
TrayCapacity == 4

\* DaemonStatus::Crashed(code); the other values of the enum are written
\* <<"Starting">>, <<"Running">> and <<"Stopped">>.
Crashed(code) == <<"Crashed", code>>

\* The DaemonStatus stop_daemon and poll_daemon derive from an ExitStatus:
\* Stopped on success(), otherwise Crashed(status.code()). A spawned process
\* is "alive", has exited by itself with status 0 or 1 ("exit0", "exit1"),
\* or was ended by the manager's kill() ("killed").
exited_status(state) ==
    IF state = "exit0" THEN <<"Stopped">>
    ELSE IF state = "exit1" THEN Crashed(1)
    ELSE Crashed(NoCode)

\* The fields of ManagerApp that the daemon methods read and write, together
\* with the processes they act on.
ManagerApp ==
    [daemon |-> daemon, daemon_status |-> daemon_status,
     status_message |-> status_message, children |-> children]

\* self.start_daemon(): spawn_ok says whether spawn_preview_daemon() succeeds.
start_daemon(self, spawn_ok) ==
    IF self.daemon # NoChild THEN [self |-> self, ok |-> TRUE]
    ELSE IF ~spawn_ok THEN [self |-> self, ok |-> FALSE]
    ELSE [self |-> [self EXCEPT !.daemon = Len(self.children) + 1,
                                !.daemon_status = <<"Starting">>,
                                !.status_message = "starting",
                                !.children = Append(@, "alive")],
          ok |-> TRUE]

\* self.stop_daemon(): the handle is taken, the child killed, and wait_ok
\* says whether child.wait() succeeds.
stop_daemon(self, wait_ok) ==
    IF self.daemon = NoChild THEN [self |-> self, ok |-> TRUE]
    ELSE
        LET child == self.daemon
            killed == [self.children EXCEPT
                          ![child] = IF @ = "alive" THEN "killed" ELSE @]
            taken == [self EXCEPT !.daemon = NoChild, !.children = killed]
        IN  IF ~wait_ok THEN [self |-> taken, ok |-> FALSE]
            ELSE [self |-> [taken EXCEPT
                               !.daemon_status = exited_status(killed[child]),
                               !.status_message = "stopped"],
                  ok |-> TRUE]

\* self.restart_daemon()
restart_daemon(self, wait_ok, spawn_ok) ==
    LET stopped == stop_daemon(self, wait_ok)
        started == start_daemon(stopped.self, spawn_ok)
    IN  IF ~stopped.ok
        THEN [stopped.self EXCEPT !.status_message = "restart_failed"]
        ELSE IF ~started.ok
        THEN [started.self EXCEPT !.status_message = "restart_failed"]
        ELSE started.self

\* self.poll_daemon(): elapsed says whether DAEMON_CHECK_INTERVAL_MS have
\* passed since the last check, try_wait_ok whether child.try_wait() succeeds.
poll_daemon(self, elapsed, try_wait_ok) ==
    IF ~elapsed \/ self.daemon = NoChild \/ ~try_wait_ok THEN self
    ELSE IF self.children[self.daemon] # "alive"
    THEN [self EXCEPT
             !.daemon = NoChild,
             !.daemon_status = exited_status(self.children[self.daemon]),
             !.status_message = "exited"]
    ELSE IF self.daemon_status = <<"Starting">>
    THEN [self EXCEPT !.daemon_status = <<"Running">>,
                      !.status_message = "running"]
    ELSE self

\* What the tray commands waiting in the channel do to the window:
\* self.process_tray_commands(ctx).
RECURSIVE process_tray_commands(_, _)
process_tray_commands(window, commands) ==
    IF commands = <<>> THEN window
    ELSE
        LET command == Head(commands)
            after ==
                IF command = "ToggleWindow"
                THEN [window EXCEPT !.window_visible = ~@]
                ELSE [window EXCEPT !.allow_close = TRUE,
                                    !.close_requested = TRUE]
        IN  process_tray_commands(after, Tail(commands))

\* A frame that ignores allow_close lets every close request through.
close_request_always_proceeds(requested, allowed) ==
    IF requested THEN "proceeds" ELSE "none"

\* The head of update(): what the frame does with a close request.
close_request(requested, allowed) ==
    IF ~requested THEN "none"
    ELSE IF allowed THEN "proceeds"
    ELSE "cancelled"

\* The manager as ManagerApp::new(cc) leaves it: tray_ok says whether
\* create_tray_icon() succeeds, spawn_ok whether the daemon starts.
ManagerNew(tray_ok, spawn_ok) ==
    /\ LET built == [daemon |-> NoChild, daemon_status |-> <<"Stopped">>,
                     status_message |-> "none", children |-> <<>>]
           started == start_daemon(built, spawn_ok)
           app == IF started.ok THEN started.self
                  ELSE [started.self EXCEPT
                           !.status_message = "failed_start"]
       IN  /\ daemon = app.daemon
           /\ daemon_status = app.daemon_status
           /\ status_message = app.status_message
           /\ children = app.children
    /\ window_visible = TRUE
    /\ allow_close = FALSE
    /\ tray = tray_ok
    /\ tray_rx = <<>>
    /\ close_requested = FALSE
    /\ exiting = FALSE
    /\ exited = FALSE
    /\ frame = [close |-> "none", cancelled |-> FALSE]

\* No window is tracked and the loop has taken no event.
EventsIdle ==
    /\ eves = <<>>
    /\ hide_when_no_focus = FALSE
    /\ snap_threshold = default_snap_threshold
    /\ outcome = NoEvent
    /\ running = TRUE

\* CycleState::new(config_order), recording the histories named.
InitTracking(histories) ==
    /\ ManagerNew(TRUE, TRUE)
    /\ config_order \in UNION {[1..n -> Names] : n \in 0..MaxInitLen}
    /\ current_index = new(config_order).current_index
    /\ active_windows = new(config_order).active_windows
    /\ init_order = IF "init" \in histories THEN config_order ELSE <<>>
    /\ live = {}
    /\ last = Called("new", None, TRUE)
    /\ run = NoRun
    /\ track = histories
    /\ PositionsIdle
    /\ EventsIdle

Init == InitTracking({"last"})

\* state.add_window(character_name, window)
AddWindowOn(character_name, window) ==
    /\ SetNav(add_window(Cur, character_name, window))
    /\ live' = Live({window}, {})
    /\ last' = Last("add_window", None, TRUE)
    /\ run' = NoRun
    /\ UNCHANGED <<init_order, track, positionVars, eventVars, managerVars>>

AddWindow ==
    \E character_name \in Names, window \in Windows :
        AddWindowOn(character_name, window)

\* state.remove_window(window)
RemoveWindowOn(window) ==
    \E s \in remove_window(Cur, window) :
        /\ SetNav(s)
        /\ live' = Live({}, {window})
        /\ last' = Last("remove_window", None, TRUE)
        /\ run' = NoRun
        /\ UNCHANGED <<init_order, track, positionVars, eventVars, managerVars>>

RemoveWindow ==
    \E window \in Windows :
        RemoveWindowOn(window)

\* state.update_character(window, new_name)
UpdateCharacterOn(window, new_name) ==
    \E s \in update_character(Cur, window, new_name) :
        /\ SetNav(s)
        /\ live' = Live({window}, {})
        /\ last' = Last("update_character", None, TRUE)
        /\ run' = NoRun
        /\ UNCHANGED <<init_order, track, positionVars, eventVars, managerVars>>

UpdateCharacter ==
    \E window \in Windows, new_name \in Names :
        UpdateCharacterOn(window, new_name)

\* state.cycle_forward()
CycleForward ==
    LET out == cycle_forward(Cur) IN
    /\ out.returns
    /\ current_index' = out.index
    /\ last' = Last("cycle_forward", out.ret, TRUE)
    /\ run' = RunForward
    /\ UNCHANGED <<config_order, active_windows, init_order, live, track,
                   positionVars, eventVars, managerVars>>

\* state.cycle_backward()
CycleBackward ==
    LET out == cycle_backward(Cur) IN
    /\ out.returns
    /\ current_index' = out.index
    /\ last' = Last("cycle_backward", out.ret, TRUE)
    /\ run' = RunBackward
    /\ UNCHANGED <<config_order, active_windows, init_order, live, track,
                   positionVars, eventVars, managerVars>>

\* state.set_current(character_name)
SetCurrentOn(character_name) ==
    LET out == set_current(Cur, character_name) IN
    /\ current_index' = out.index
    /\ last' = Last("set_current", None, out.ok)
    /\ run' = NoRun
    /\ UNCHANGED <<config_order, active_windows, init_order, live, track,
                   positionVars, eventVars, managerVars>>

SetCurrent ==
    \E character_name \in Names :
        SetCurrentOn(character_name)

Next ==
    \/ AddWindow
    \/ RemoveWindow
    \/ UpdateCharacter
    \/ CycleForward
    \/ CycleBackward
    \/ SetCurrent

\* Every method is called, and the last call is recorded in last.
Spec == Init /\ [][Next]_vars

\* Only add_window and remove_window are called, and the windows added and
\* not removed are recorded in live.
NextAddRemove ==
    \/ AddWindow
    \/ RemoveWindow

SpecAddRemove == InitTracking({"live"}) /\ [][NextAddRemove]_vars

\* Every method is called, and runs of cycle calls are recorded in run.
SpecRun == InitTracking({"run"}) /\ [][Next]_vars

\* Every method is called, and the order the navigator was built with is
\* recorded in init_order.
SpecOrder == InitTracking({"init"}) /\ [][Next]_vars

\* The navigator as CycleState::new(vec![]) leaves it, untouched, with the
\* histories named recorded.
NavIdleTracking(histories) ==
    /\ config_order = <<>>
    /\ current_index = new(<<>>).current_index
    /\ active_windows = new(<<>>).active_windows
    /\ init_order = <<>>
    /\ live = {}
    /\ last = Called("new", None, TRUE)
    /\ run = NoRun
    /\ track = histories

NavIdle == NavIdleTracking({})

\* The character settings a configuration file may hold at startup.
LoadedSettings ==
    {CharacterSettings(p[1], p[2], DefaultDims[1], DefaultDims[2]) :
       p \in Positions}

LoadedPositions ==
    UNION {[present -> LoadedSettings] : present \in SUBSET Characters}

\* state.update_window_position(window, x, y)
UpdateWindowPositionOn(window, pos) ==
    /\ window_positions' =
         update_window_position(Saved, window, pos[1], pos[2]).window_positions
    /\ pcall' = PCalled("update_window_position", "", "", window, pos,
                        "none", TRUE, NonePos)
    /\ UNCHANGED <<inherit_window_position, character_positions>>
    /\ UNCHANGED <<navVars, eventVars, managerVars>>

UpdateWindowPosition ==
    \E window \in Windows, pos \in Positions :
        UpdateWindowPositionOn(window, pos)

\* state.get_position(&character_name, window,
\*                    &persistent_state.character_positions)
GetPositionOn(character_name, window) ==
    /\ pcall' = PCalled("get_position", character_name, "", window, <<>>,
                        "none", TRUE,
                        get_position(Saved, character_name, window,
                                     as_tuples(character_positions)))
    /\ UNCHANGED <<window_positions, inherit_window_position,
                   character_positions>>
    /\ UNCHANGED <<navVars, eventVars, managerVars>>

GetPosition ==
    \E character_name \in Characters, window \in Windows :
        GetPositionOn(character_name, window)

\* persistent_state.update_position(character_name, x, y, width, height)
UpdatePositionOn(character_name, pos, written) ==
    LET out == update_position(character_positions, character_name,
                               pos[1], pos[2], CurrentDims[1], CurrentDims[2],
                               written)
    IN  /\ character_positions' = out.character_positions
        /\ pcall' = PCalled("update_position", character_name, "", None,
                            CharacterSettings(pos[1], pos[2], CurrentDims[1],
                                              CurrentDims[2]),
                            out.save, out.ok, out.ret)
        /\ UNCHANGED <<window_positions, inherit_window_position>>
        /\ UNCHANGED <<navVars, eventVars, managerVars>>

UpdatePosition ==
    \E character_name \in Characters, pos \in Positions, written \in BOOLEAN :
        UpdatePositionOn(character_name, pos, written)

\* persistent_state.handle_character_change(old_name, new_name,
\*     current_position, current_width, current_height)
HandleCharacterChangeOn(old_name, new_name, pos, written) ==
    LET out == handle_character_change(character_positions, old_name,
                                       new_name, pos, CurrentDims[1],
                                       CurrentDims[2], written)
    IN  /\ character_positions' = out.character_positions
        /\ pcall' = PCalled("handle_character_change", old_name, new_name,
                            None,
                            CharacterSettings(pos[1], pos[2], CurrentDims[1],
                                              CurrentDims[2]),
                            out.save, out.ok, out.ret)
        /\ UNCHANGED <<window_positions, inherit_window_position>>
        /\ UNCHANGED <<navVars, eventVars, managerVars>>

HandleCharacterChange ==
    \E old_name \in Characters, new_name \in Characters, pos \in Positions,
       written \in BOOLEAN :
        HandleCharacterChangeOn(old_name, new_name, pos, written)

\* A session of the position resolver: positions are recorded per window
\* and resolved, against any persisted map and either setting of the
\* inherit policy.
InitResolver ==
    /\ ManagerNew(TRUE, TRUE)
    /\ NavIdle
    /\ EventsIdle
    /\ window_positions = <<>>
    /\ inherit_window_position \in BOOLEAN
    /\ character_positions \in LoadedPositions
    /\ pcall = NoCall

NextResolver ==
    \/ UpdateWindowPosition
    \/ GetPosition

SpecResolver == InitResolver /\ [][NextResolver]_vars

\* The calls that write the per-character settings, starting from any
\* loaded map; every save() may succeed or fail.
InitPersist ==
    /\ ManagerNew(TRUE, TRUE)
    /\ NavIdle
    /\ EventsIdle
    /\ window_positions = <<>>
    /\ inherit_window_position = FALSE
    /\ character_positions \in LoadedPositions
    /\ pcall = NoCall

NextPersist ==
    \/ UpdatePosition
    \/ HandleCharacterChange

SpecPersist == InitPersist /\ [][NextPersist]_vars

\* A turn of the loop that saves the position of a logged-in character's
\* thumbnail on every MotionNotify that moved it.
TurnPersisting(event, effect) ==
    /\ running
    /\ eves' = effect.eves
    /\ outcome' = Handled(event, effect)
    /\ running' = inspect_err(effect.result).running
    /\ character_positions' =
         IF /\ event = "MotionNotify"
            /\ effect.target \in DOMAIN effect.eves
            /\ effect.result = "Ok"
            /\ effect.eves[effect.target].character_name # ""
         THEN update_position(character_positions,
                              effect.eves[effect.target].character_name,
                              effect.reposition[1], effect.reposition[2],
                              CurrentDims[1], CurrentDims[2],
                              TRUE).character_positions
         ELSE character_positions
    /\ UNCHANGED <<hide_when_no_focus, snap_threshold>>
    /\ UNCHANGED <<navVars, window_positions, inherit_window_position, pcall,
                   managerVars>>

\* One turn of the loop of main: wait_for_event() returned the event,
\* handle_event ran, and its Result went through inspect_err.
Turn(event, effect) ==
    /\ running
    /\ eves' = effect.eves
    /\ outcome' = Handled(event, effect)
    /\ running' = inspect_err(effect.result).running
    /\ UNCHANGED <<hide_when_no_focus, snap_threshold>>
    /\ UNCHANGED <<navVars, positionVars, managerVars>>

\* Event::ButtonPress at (root_x, root_y)
ButtonPressAt(root_x, root_y) ==
    \E effect \in button_press(eves, root_x, root_y) :
        Turn("ButtonPress", effect)

ButtonPress ==
    \E root_x \in PointerXs, root_y \in PointerYs :
        ButtonPressAt(root_x, root_y)

\* Event::ButtonRelease at (root_x, root_y) of button detail
ButtonReleaseAt(root_x, root_y, detail) ==
    \E effect \in button_release(eves, root_x, root_y, detail) :
        Turn("ButtonRelease", effect)

ButtonRelease ==
    \E root_x \in PointerXs, root_y \in PointerYs, detail \in Buttons :
        ButtonReleaseAt(root_x, root_y, detail)

\* Event::MotionNotify at (root_x, root_y)
MotionNotifyAt(root_x, root_y) ==
    \E effect \in motion_notify(eves, root_x, root_y) :
        Turn("MotionNotify", effect)

MotionNotify ==
    \E root_x \in PointerXs, root_y \in PointerYs :
        MotionNotifyAt(root_x, root_y)

\* conn.wait_for_event()? fails: main returns the error.
WaitForEventFails ==
    /\ running
    /\ running' = FALSE
    /\ outcome' = [NoEvent EXCEPT !.event = "wait_for_event",
                                  !.result = "Err",
                                  !.previous = Previous]
    /\ UNCHANGED <<eves, hide_when_no_focus, snap_threshold>>
    /\ UNCHANGED <<navVars, positionVars, managerVars>>

\* The window the pointer claims follow, and the names it may show.
Dragged == {h \in Windows : \A w \in Windows : h <= w}

\* The loop of main fed with pointer events, with one tracked window
\* anywhere on the pointer grid, visible or hidden, logged in or not, and
\* no position saved yet.
InitDrag ==
    /\ ManagerNew(TRUE, TRUE)
    /\ NavIdleTracking({"previous"})
    /\ PositionsIdle
    /\ eves \in [Dragged ->
                   {Thumbnail(character_name, x, y, visible) :
                      character_name \in {"", NameUniverse[1]},
                      x \in PointerXs, y \in PointerYs,
                      visible \in BOOLEAN}]
    /\ hide_when_no_focus = FALSE
    /\ snap_threshold = default_snap_threshold
    /\ outcome = NoEvent
    /\ running = TRUE

NextDrag ==
    \/ ButtonPress
    \/ ButtonRelease
    \/ MotionNotify
    \/ WaitForEventFails

SpecDrag == InitDrag /\ [][NextDrag]_vars

\* The windows the registry events are about: two, so that an event for
\* one window can be seen to affect or spare the other.
RegistryWindows == {w \in Windows : w <= 2}

\* The atoms a PropertyNotify may carry.
Atoms == {"wm_name", "net_wm_state", "other"}

\* CreateNotify for event.window
CreateNotifyOn(window, wine, probe, requests_ok) ==
    \E effect \in {create_notify(eves, window,
                      check_and_create_window(Saved, character_positions,
                                              window, wine, probe,
                                              requests_ok))} :
        Turn("CreateNotify", effect)

\* The X server reports the creation of a window once, before any other
\* event for it, so never for a window that is tracked.
CreateNotify ==
    \E window \in RegistryWindows \ DOMAIN eves, wine \in WineResults,
       probe \in IsWindowEveResults, requests_ok \in BOOLEAN :
        CreateNotifyOn(window, wine, probe, requests_ok)

\* DestroyNotify for event.window
DestroyNotifyOn(window) ==
    \E effect \in {destroy_notify(eves, window)} :
        Turn("DestroyNotify", effect)

DestroyNotify ==
    \E window \in RegistryWindows :
        DestroyNotifyOn(window)

\* PropertyNotify for event.window and event.atom
PropertyNotifyOn(window, atom, wine, probe, hidden, requests_ok) ==
    \E effect \in {property_notify(eves, window, atom, probe,
                      check_and_create_window(Saved, character_positions,
                                              window, wine, probe,
                                              requests_ok),
                      hidden, requests_ok)} :
        Turn("PropertyNotify", effect)

\* The arm reads the window's name and process only for WM_NAME, and the
\* window's state only for _NET_WM_STATE; what it does not read is left at
\* one value.
PropertyNotify ==
    \E window \in RegistryWindows, requests_ok \in BOOLEAN :
        \/ \E wine \in WineResults, probe \in IsWindowEveResults :
              PropertyNotifyOn(window, "wm_name", wine, probe, FALSE,
                               requests_ok)
        \/ \E atom \in Atoms \ {"wm_name"}, hidden \in BOOLEAN :
              PropertyNotifyOn(window, atom, "wine",
                               IsWindowEve(TRUE, FALSE, ""), hidden,
                               requests_ok)

\* FocusIn for event.event
FocusInOn(window) ==
    \E effect \in focus_in(eves, hide_when_no_focus, window) :
        Turn("FocusIn", effect)

FocusIn ==
    \E window \in RegistryWindows :
        FocusInOn(window)

\* FocusOut for event.event
FocusOutOn(window) ==
    \E effect \in focus_out(eves, hide_when_no_focus, window) :
        Turn("FocusOut", effect)

FocusOut ==
    \E window \in RegistryWindows :
        FocusOutOn(window)

\* DamageNotify for event.damage
DamageNotifyOn(damage, requests_ok) ==
    \E effect \in damage_notify(eves, damage, requests_ok) :
        Turn("DamageNotify", effect)

DamageNotify ==
    \E damage \in RegistryWindows, requests_ok \in BOOLEAN :
        DamageNotifyOn(damage, requests_ok)

\* The settings a configuration file may hold for the first character.
FirstCharacterPositions ==
    {<<>>} \cup [{NameUniverse[1]} -> LoadedSettings]

\* The loop of main fed with the window, property, focus and damage
\* events of two windows, from a start with no window tracked, under
\* either setting of hide_when_no_focus.  No session position is ever
\* recorded, as handle_event records none.
InitRegistry ==
    /\ ManagerNew(TRUE, TRUE)
    /\ NavIdle
    /\ window_positions = <<>>
    /\ inherit_window_position = FALSE
    /\ character_positions \in FirstCharacterPositions
    /\ pcall = NoCall
    /\ eves = <<>>
    /\ hide_when_no_focus \in BOOLEAN
    /\ snap_threshold = default_snap_threshold
    /\ outcome = NoEvent
    /\ running = TRUE

NextRegistry ==
    \/ CreateNotify
    \/ DestroyNotify
    \/ PropertyNotify
    \/ FocusIn
    \/ FocusOut
    \/ DamageNotify

SpecRegistry == InitRegistry /\ [][NextRegistry]_vars

\* CreateNotify for event.window, with what the process check reads
ProbedCreateOn(window, prop, exe, probe, requests_ok) ==
    \E effect \in {create_notify(eves, window,
                      check_and_create_window(Saved, character_positions,
                                              window, wine_check(prop, exe),
                                              probe, requests_ok))} :
        /\ running
        /\ eves' = effect.eves
        /\ outcome' = [Handled("CreateNotify", effect)
                         EXCEPT !.process = <<prop, exe>>]
        /\ running' = inspect_err(effect.result).running
        /\ UNCHANGED <<hide_when_no_focus, snap_threshold>>
        /\ UNCHANGED <<navVars, positionVars, managerVars>>

ProbedCreate ==
    \E window \in RegistryWindows \ DOMAIN eves, prop \in PidProperties,
       exe \in ExeLinks, probe \in IsWindowEveResults,
       requests_ok \in BOOLEAN :
        ProbedCreateOn(window, prop, exe, probe, requests_ok)

\* The loop of main fed with the creation and destruction of two windows
\* of any process.
NextProbe ==
    \/ ProbedCreate
    \/ DestroyNotify

SpecProbe == InitRegistry /\ [][NextProbe]_vars

\* The loop of main fed with the pointer events and the damage events of
\* one tracked window.
NextFrequent ==
    \/ ButtonPress
    \/ ButtonRelease
    \/ MotionNotify
    \/ DamageNotify

SpecFrequent == InitDrag /\ [][NextFrequent]_vars

\* The pointer positions of the two-window loop: the left end of the
\* top row of the pointer grid.
LineXs == {x \in PointerXs : x <= 1}
LineYs == {y \in PointerYs : y <= 0}

PressOnLine ==
    \E root_x \in LineXs, root_y \in LineYs :
        ButtonPressAt(root_x, root_y)

ReleaseOnLine ==
    \E root_x \in LineXs, root_y \in LineYs, detail \in Buttons :
        ButtonReleaseAt(root_x, root_y, detail)

MotionOnLine ==
    \E root_x \in LineXs, root_y \in LineYs :
        MotionNotifyAt(root_x, root_y)

\* CreateNotify for an EVE window that is not logged in, with every
\* request answered.
EveWindowCreated ==
    \E window \in RegistryWindows \ DOMAIN eves :
        CreateNotifyOn(window, "wine", IsWindowEve(TRUE, TRUE, ""), TRUE)

\* The loop of main fed with pointer events on the line and with the
\* creation and destruction of two EVE windows.  At the start both are
\* tracked at the centre; under hide_when_no_focus they may all have been
\* hidden.
InitPointer ==
    /\ ManagerNew(TRUE, TRUE)
    /\ NavIdleTracking({"mid_drag"})
    /\ PositionsIdle
    /\ hide_when_no_focus \in BOOLEAN
    /\ snap_threshold \in {0, default_snap_threshold}
    /\ \E visible \in BOOLEAN :
          /\ ~hide_when_no_focus => visible
          /\ eves = [w \in RegistryWindows |->
                       Thumbnail("", Centre[1], Centre[2], visible)]
    /\ outcome = NoEvent
    /\ running = TRUE

NextPointer ==
    \/ PressOnLine
    \/ ReleaseOnLine
    \/ MotionOnLine
    \/ EveWindowCreated
    \/ DestroyNotify

SpecPointer == InitPointer /\ [][NextPointer]_vars

\* ---------------------------------------------------------- properties

\* The windows that are the value of some entry of active_windows.
ActiveValues == {active_windows[k] : k \in DOMAIN active_windows}

\* The names of config_order that have a window, and those that have none.
ActiveNames == DOMAIN active_windows
InactiveInOrder ==
    {i \in 1..Len(config_order) : config_order[i] \notin ActiveNames}

\* The cursor is on a name that has a window.
OnActiveName ==
    /\ current_index < Len(config_order)
    /\ config_order[current_index + 1] \in ActiveNames

\* C1: after any sequence of add_window and remove_window calls,
\* active_windows holds exactly the windows added and not since removed:
\* each of them is the value of some entry, and no other window is.
C1_ExactlyAddedNotRemoved == ActiveValues = live

\* C2: whenever cycle_forward or cycle_backward returns a window, the name
\* at config_order[current_index] after the call is a key of active_windows
\* and the returned window is the value mapped to that name.
C2_CycleYieldsActiveName ==
    (last.op \in {"cycle_forward", "cycle_backward"} /\ last.ret # None) =>
        /\ OnActiveName
        /\ active_windows[config_order[current_index + 1]] = last.ret

\* A cycle_backward call has just returned a window, and the order holds a
\* name without a window beside two names that have one.
C2_Witness ==
    /\ last.op = "cycle_backward"
    /\ last.ret # None
    /\ InactiveInOrder # {}
    /\ Cardinality(ActiveNames) >= 2

RunComplete == run.fwd > 0 /\ run.back = run.fwd

\* C4 as stated: from any reachable state, N cycle_forward calls followed
\* by N cycle_backward calls, with no other call in between, restore
\* current_index to the value it had before the first call.
C4_RoundTripFromAnywhere == RunComplete => current_index = run.start

\* C4 as amended: N cycle_forward calls followed by N cycle_backward calls
\* restore current_index provided that, before the first call, the name at
\* current_index had a window or no name had one.
C4_RoundTripFromActive ==
    (RunComplete /\ run.anchored) => current_index = run.start

\* Two cycle_forward calls and then two cycle_backward calls have been made
\* from a cursor on a name with a window, over an order that also holds
\* another name with a window and a name without one.
C4_Witness ==
    /\ run.fwd = 2
    /\ run.back = 2
    /\ run.anchored
    /\ OnActiveName
    /\ Cardinality(ActiveNames) >= 2
    /\ InactiveInOrder # {}

\* The index k steps away from the cursor of s in circular order, forward
\* for dir = 1 and backward for dir = -1, and whether the name at an index
\* has a window.
Around(s, k, dir) ==
    (s.current_index + Len(s.config_order) + dir * k) % Len(s.config_order)
HasWindowAt(s, i) == s.config_order[i + 1] \in DOMAIN s.active_windows
SomeActiveInOrder(s) ==
    \E i \in 0..(Len(s.config_order) - 1) : HasWindowAt(s, i)

\* The least number of steps, from 1 to the length of the order, that lead
\* from the cursor of s to a name that has a window.
StepsToActive(s, dir) ==
    CHOOSE k \in 1..Len(s.config_order) :
        /\ HasWindowAt(s, Around(s, k, dir))
        /\ \A j \in 1..(k - 1) : ~HasWindowAt(s, Around(s, j, dir))

\* C5: cycle_forward sets current_index to the first index strictly after
\* the current one, in circular config_order order, whose name is in
\* active_windows, and returns that name's window; when every name has a
\* window the cursor moves to the next index, wrapping from the last entry
\* to the first.
C5_ForwardFirstActive ==
    [][(last'.op = "cycle_forward" /\ SomeActiveInOrder(Cur)) =>
        LET k == StepsToActive(Cur, 1) IN
        /\ current_index' = Around(Cur, k, 1)
        /\ last'.ret = active_windows[config_order[current_index' + 1]]
        /\ InactiveInOrder = {} =>
              current_index' = (IF current_index = Len(config_order) - 1
                                THEN 0
                                ELSE current_index + 1)
    ]_vars

\* cycle_forward has just wrapped to index 0 and returned the window there,
\* skipping the last name of the order, which has no window, and another
\* name has a window too.
C5_Witness ==
    /\ last.op = "cycle_forward"
    /\ last.ret # None
    /\ current_index = 0
    /\ Len(config_order) >= 3
    /\ Len(config_order) \in InactiveInOrder
    /\ Cardinality(ActiveNames) >= 2

\* C6: cycle_backward sets current_index to the first index strictly
\* before the current one, in circular config_order order, whose name is in
\* active_windows, and returns that name's window; from index 0 it wraps to
\* the last entry.
C6_BackwardFirstActive ==
    [][(last'.op = "cycle_backward" /\ SomeActiveInOrder(Cur)) =>
        LET k == StepsToActive(Cur, -1) IN
        /\ current_index' = Around(Cur, k, -1)
        /\ last'.ret = active_windows[config_order[current_index' + 1]]
        /\ (current_index = 0 /\ HasWindowAt(Cur, Len(config_order) - 1)) =>
              current_index' = Len(config_order) - 1
    ]_vars

\* cycle_backward has just moved the cursor to the last index of an order
\* of three names or more, while the second name has no window.
C6_Witness ==
    /\ last.op = "cycle_backward"
    /\ last.ret # None
    /\ Len(config_order) >= 3
    /\ current_index = Len(config_order) - 1
    /\ 2 \in InactiveInOrder
    /\ Cardinality(ActiveNames) >= 2

\* The navigator with the order and cursor it has and a map whose only name
\* is not in the order.  No sequence of calls leads there (add_window puts
\* every name it maps into the order), but it is where the loops of
\* cycle_forward and cycle_backward wrap fully without finding a window.
Strangers ==
    {Nav(config_order, current_index, [n \in {name} |-> window]) :
        name \in {n \in Names : ~Contains(config_order, n)},
        window \in Windows}

\* C7: cycle_forward and cycle_backward return no target when config_order
\* is empty, when active_windows is empty, or when a full wrap finds no
\* name of config_order with a window, and whenever they return no target
\* config_order, current_index and active_windows are the same after the
\* call as before.
C7_NoTargetKeepsState ==
    [][/\ last'.op \in {"cycle_forward", "cycle_backward"} =>
            /\ (\/ config_order = <<>>
                \/ active_windows = <<>>
                \/ ~SomeActiveInOrder(Cur)) => last'.ret = None
            /\ last'.ret = None =>
                  UNCHANGED <<config_order, current_index, active_windows>>
       /\ \A s \in Strangers :
            /\ cycle_forward(s) =
                  Outcome(current_index, None,
                          IF config_order = <<>> THEN 0 ELSE Len(config_order),
                          TRUE)
            /\ cycle_backward(s) = cycle_forward(s)
    ]_vars

\* cycle_forward has just returned no target with the cursor past index 0.
C7_Witness ==
    /\ last.op = "cycle_forward"
    /\ last.ret = None
    /\ current_index > 0

\* C8: set_current(name) returns true exactly when name occurs in
\* config_order, with or without a window, and then current_index is the
\* position of its first occurrence, so that a following cycle_forward
\* returns the window of the first name after it that has one; when name
\* is absent it returns false and leaves current_index unchanged;
\* config_order and active_windows are left unchanged either way.
C8_SetCurrent ==
    [][\A name \in Names : SetCurrentOn(name) =>
        /\ last'.ok = Contains(config_order, name)
        /\ last'.ok =>
              /\ current_index' < Len(config_order)
              /\ config_order[current_index' + 1] = name
              /\ \A j \in 1..current_index' : config_order[j] # name
              /\ LET s == Nav(config_order, current_index', active_windows) IN
                 SomeActiveInOrder(s) =>
                    cycle_forward(s).ret =
                        active_windows[
                            config_order[Around(s, StepsToActive(s, 1), 1) + 1]]
        /\ ~last'.ok => current_index' = current_index
        /\ UNCHANGED <<config_order, active_windows>>
    ]_vars

\* set_current has just succeeded for a name past index 0 that has no
\* window, while another name has one.
C8_Witness ==
    /\ last.op = "set_current"
    /\ last.ok
    /\ current_index > 0
    /\ ~OnActiveName
    /\ ActiveNames # {}

IsPrefix(p, q) ==
    /\ Len(p) <= Len(q)
    /\ \A i \in 1..Len(p) : p[i] = q[i]
NoDuplicates(order) ==
    \A i, j \in 1..Len(order) : order[i] = order[j] => i = j

\* C9: config_order is append-only: add_window(name, h) appends name at the
\* end only when name is absent and otherwise leaves config_order
\* unchanged, no call removes or reorders entries, so that the order the
\* navigator was built with is a prefix of config_order and no name occurs
\* in config_order twice if none did initially.
C9_AppendOnly ==
    /\ [](/\ IsPrefix(init_order, config_order)
          /\ NoDuplicates(init_order) => NoDuplicates(config_order))
    /\ [][/\ IsPrefix(config_order, config_order')
          /\ \A name \in Names, window \in Windows :
                AddWindowOn(name, window) =>
                    config_order' = IF Contains(config_order, name)
                                    THEN config_order
                                    ELSE Append(config_order, name)
       ]_vars

\* Two names have been appended to an order built with one name, and the
\* name the order was built with has a window too.
C9_Witness ==
    /\ Len(init_order) = 1
    /\ Len(config_order) = 3
    /\ init_order[1] \in ActiveNames
    /\ config_order[3] \in ActiveNames

\* C10: update_character(h, new_name) is equivalent to remove_window(h)
\* followed by add_window(new_name, h): from every reachable state the two
\* can leave the same config_order, active_windows and current_index.
C10_RenameIsRemoveThenAdd ==
    \A window \in Windows, new_name \in Names :
        update_character(Cur, window, new_name) =
            {add_window(r, new_name, window) : r \in remove_window(Cur, window)}

\* update_character has just moved a window to another name: the cursor is
\* on the last index of the order, and a name of the order is left
\* without a window.
C10_Witness ==
    /\ last.op = "update_character"
    /\ current_index > 0
    /\ current_index = Len(config_order) - 1
    /\ InactiveInOrder # {}
    /\ ActiveNames # {}

\* C11: after update_character(window, new_name), no other name under
\* which the window was active is a key of active_windows, new_name maps
\* to the window, and every such old name is in config_order where it was.
C11_RenameMovesWindow ==
    [][\A window \in Windows, new_name \in Names :
          UpdateCharacterOn(window, new_name)
          => \A old_name \in DOMAIN active_windows :
                (active_windows[old_name] = window /\ old_name # new_name)
                => /\ old_name \notin DOMAIN active_windows'
                   /\ new_name \in DOMAIN active_windows'
                   /\ active_windows'[new_name] = window
                   /\ Contains(config_order', old_name)
                   /\ Position(config_order', old_name) =
                        Position(config_order, old_name)]_vars

\* C12: after remove_window(window), no entry of active_windows maps to
\* the window, whatever add_window and update_character calls came before.
C12_RemovedWindowNotActive ==
    [][\A window \in Windows :
          RemoveWindowOn(window) => window \notin ActiveValues']_vars

\* C13: resolving a non-empty name that has a persisted position returns
\* the persisted position, for every window, whatever session position the
\* window has and whatever the inherit policy is.
C13_PersistedWins ==
    (/\ pcall.op = "get_position"
     /\ pcall.name # ""
     /\ pcall.name \in DOMAIN character_positions)
    => pcall.ret = <<character_positions[pcall.name].x,
                     character_positions[pcall.name].y>>

\* A persisted name was resolved for a window that has a different session
\* position, with the inherit policy enabled.
C13_Witness ==
    /\ pcall.op = "get_position"
    /\ pcall.name # ""
    /\ pcall.name \in DOMAIN character_positions
    /\ inherit_window_position
    /\ pcall.window \in DOMAIN window_positions
    /\ window_positions[pcall.window] # pcall.ret

\* C14: resolving the empty name returns the session position recorded
\* for that exact window, and none if there is no such record; the
\* persisted map plays no part, even with an entry keyed by "".
C14_EmptyNameUsesSession ==
    (pcall.op = "get_position" /\ pcall.name = "")
    => pcall.ret = IF pcall.window \in DOMAIN window_positions
                   THEN window_positions[pcall.window]
                   ELSE NonePos

\* The empty name was resolved for a window with a session position, while
\* the persisted map holds another position under "" and another window
\* holds another session position.
C14_Witness ==
    /\ pcall.op = "get_position"
    /\ pcall.name = ""
    /\ "" \in DOMAIN character_positions
    /\ pcall.window \in DOMAIN window_positions
    /\ pcall.ret = window_positions[pcall.window]
    /\ pcall.ret # <<character_positions[""].x, character_positions[""].y>>
    /\ \E other \in DOMAIN window_positions :
          window_positions[other] # pcall.ret

\* C15: resolving a non-empty name without a persisted position returns
\* the session position of that exact window when the inherit policy is
\* enabled and the window has one, and none otherwise; in particular none
\* when the policy is disabled and the window has a session position.
C15_InheritOnlyIfEnabled ==
    (/\ pcall.op = "get_position"
     /\ pcall.name # ""
     /\ pcall.name \notin DOMAIN character_positions)
    => pcall.ret = IF /\ inherit_window_position
                      /\ pcall.window \in DOMAIN window_positions
                   THEN window_positions[pcall.window]
                   ELSE NonePos

\* A name without a persisted position was resolved to none, with the
\* policy disabled, for a window that has a session position.
C15_Witness ==
    /\ pcall.op = "get_position"
    /\ pcall.name # ""
    /\ pcall.name \notin DOMAIN character_positions
    /\ ~inherit_window_position
    /\ pcall.window \in DOMAIN window_positions
    /\ pcall.ret = NonePos

\* C16: a character change records the geometry passed in under old_name
\* whenever old_name is not empty, whether or not save() succeeds, and
\* leaves every other record alone; with an empty old_name the map is
\* left as it was.
C16_OutgoingGeometryRecorded ==
    [][\A old_name \in Characters, new_name \in Characters,
          pos \in Positions, written \in BOOLEAN :
          HandleCharacterChangeOn(old_name, new_name, pos, written)
          => IF old_name # ""
             THEN /\ old_name \in DOMAIN character_positions'
                  /\ character_positions'[old_name] =
                       CharacterSettings(pos[1], pos[2], CurrentDims[1],
                                         CurrentDims[2])
                  /\ \A n \in (DOMAIN character_positions') \ {old_name} :
                        /\ n \in DOMAIN character_positions
                        /\ character_positions'[n] = character_positions[n]
             ELSE character_positions' = character_positions]_vars

\* A character change whose save() failed has recorded the geometry under
\* a name that had another record before.
C16_Witness ==
    /\ pcall.op = "handle_character_change"
    /\ pcall.name # ""
    /\ pcall.save = "failed"
    /\ ~pcall.ok
    /\ character_positions[pcall.name] = pcall.geometry

\* The thumbnails a pointer event at (x, y) may be delivered to as part of
\* a drag: dragging, with (x, y) inside their bounds.
DraggingAt(x, y) ==
    {w \in DOMAIN eves :
       eves[w].input_state.dragging /\ is_hovered(eves[w], x, y)}

\* windowStart + (pointerCurrent - pointerStart), in x and in y.
DragTarget(thumbnail, x, y) ==
    <<thumbnail.input_state.win_start[1]
        + (x - thumbnail.input_state.drag_start[1]),
      thumbnail.input_state.win_start[2]
        + (y - thumbnail.input_state.drag_start[2])>>

\* C17: a motion sample delivered to a dragging window asks for the window
\* to be moved to windowStart + (pointerCurrent - pointerStart), in x and y
\* separately, from the anchors taken at the button press and not from the
\* window's position after earlier samples; the window is there once the
\* request has succeeded.
C17_MotionFollowsAnchors ==
    [][\A x \in PointerXs, y \in PointerYs :
          MotionNotifyAt(x, y)
          => \A w \in DraggingAt(x, y) :
                outcome'.target = w
                => /\ outcome'.reposition = DragTarget(eves[w], x, y)
                   /\ outcome'.result = "Ok"
                      => <<eves'[w].x, eves'[w].y>> =
                           DragTarget(eves[w], x, y)]_vars

\* A motion sample has moved a dragging window that an earlier sample had
\* already moved away from where the drag started, by different amounts in
\* x and in y.
C17_Witness ==
    /\ outcome.event = "MotionNotify"
    /\ outcome.result = "Ok"
    /\ outcome.previous = "Ok"
    /\ outcome.target \in DOMAIN eves
    /\ LET t == eves[outcome.target]
       IN  /\ t.input_state.dragging
           /\ outcome.reposition = <<t.x, t.y>>
           /\ t.x # t.input_state.win_start[1]
           /\ t.x - t.input_state.win_start[1] #
                t.y - t.input_state.win_start[2]

\* The released button is the primary one and the release is where the
\* drag started.
IsClick(thumbnail, x, y, detail) ==
    detail = 1 /\ thumbnail.input_state.drag_start = <<x, y>>

\* C18: on a button release on a dragging window focus() is called for
\* the window exactly when the release is a click, and the drag ends; when
\* the call of focus() fails the event is skipped, the window left
\* dragging with everything else as it was.
C18_ReleaseEndsDragUnlessFocusFails ==
    [][\A x \in PointerXs, y \in PointerYs, detail \in Buttons :
          ButtonReleaseAt(x, y, detail)
          => \A w \in DraggingAt(x, y) :
                outcome'.target = w
                => /\ (outcome'.focus = w) <=> IsClick(eves[w], x, y, detail)
                   /\ outcome'.focus \in {w, None}
                   /\ outcome'.result = "Ok"
                      => eves' = [eves EXCEPT
                                    ![w].input_state.dragging = FALSE]
                   /\ outcome'.result = "Err"
                      => /\ IsClick(eves[w], x, y, detail)
                         /\ eves' = eves]_vars

\* A click has ended a drag and called focus() for the window.
C18_Witness ==
    /\ outcome.event = "ButtonRelease"
    /\ outcome.result = "Ok"
    /\ outcome.target \in DOMAIN eves
    /\ outcome.focus = outcome.target
    /\ ~eves[outcome.target].input_state.dragging

\* C19: a button release that takes a named window from dragging to idle
\* leaves the window's position and dimensions in character_positions
\* under the window's character name.
C19_DragEndPersists ==
    [][\A x \in PointerXs, y \in PointerYs, detail \in Buttons :
          ButtonReleaseAt(x, y, detail)
          => \A w \in DraggingAt(x, y) :
                (/\ ~eves'[w].input_state.dragging
                 /\ eves[w].character_name # "")
                => /\ eves[w].character_name \in DOMAIN character_positions'
                   /\ character_positions'[eves[w].character_name] =
                        CharacterSettings(eves'[w].x, eves'[w].y,
                                          CurrentDims[1], CurrentDims[2])]_vars

\* The events handle_event is called with.
HandledEvents == {"ButtonPress", "ButtonRelease", "MotionNotify"}

\* C20: when handle_event returns an error the error is logged and the
\* loop is still running, waiting for the next event.
C20_HandlerErrorKeepsLoop ==
    (outcome.event \in HandledEvents /\ outcome.result = "Err")
    => outcome.logged /\ running

\* An event has been handled with effect right after an event whose
\* handler failed.
C20_Witness ==
    /\ running
    /\ outcome.event \in HandledEvents
    /\ outcome.previous = "Err"
    /\ outcome.result = "Ok"
    /\ outcome.target \in DOMAIN eves

\* The untracked window's state is read without the hidden marker; the
\* arm stops before it reads it.
NoProbe == IsWindowEve(TRUE, FALSE, "")

\* C21: an event that names a window absent from the registry
\* (DestroyNotify, FocusIn, FocusOut, PropertyNotify of _NET_WM_STATE or
\* DamageNotify) returns Ok and leaves the registry and every thumbnail
\* as they were.
C21_UntrackedIsNoOp ==
    [][\A w \in RegistryWindows \ DOMAIN eves :
          (\/ DestroyNotifyOn(w)
           \/ FocusInOn(w)
           \/ FocusOutOn(w)
           \/ \E hidden \in BOOLEAN, requests_ok \in BOOLEAN :
                 PropertyNotifyOn(w, "net_wm_state", "wine", NoProbe,
                                  hidden, requests_ok)
           \/ \E requests_ok \in BOOLEAN : DamageNotifyOn(w, requests_ok))
          => eves' = eves /\ outcome'.result = "Ok"]_vars

\* A FocusOut for an untracked window has been taken while the hide
\* policy is on and no tracked window is focused or minimized, and a
\* tracked window is still visible.
C21_Witness ==
    /\ outcome.event = "FocusOut"
    /\ outcome.target = None
    /\ outcome.result = "Ok"
    /\ hide_when_no_focus
    /\ \A w \in DOMAIN eves : ~eves[w].focused /\ ~eves[w].minimized
    /\ \E w \in DOMAIN eves : eves[w].visible

\* The window is found to run through wine (or not determinably
\* otherwise) and to be an EVE window, and its thumbnail is built.
Qualifies(wine, probe, requests_ok) ==
    requests_ok /\ wine # "other" /\ probe.ok /\ probe.eve

\* C22: a CreateNotify or a PropertyNotify of WM_NAME whose probe
\* qualifies the window leaves the window in the registry; the registry
\* gains an entry only by such an event for that window, handled to the
\* end, and loses an entry only, and always, by the DestroyNotify of that
\* window.
C22_RegistryFollowsEvents ==
    /\ [](\A w \in RegistryWindows, wine \in WineResults,
             probe \in IsWindowEveResults :
             Qualifies(wine, probe, TRUE)
             => LET created ==
                      check_and_create_window(Saved, character_positions,
                                              w, wine, probe, TRUE)
                IN  /\ w \in DOMAIN create_notify(eves, w, created).eves
                    /\ w \in DOMAIN property_notify(eves, w, "wm_name",
                                      probe, created, FALSE, TRUE).eves)
    /\ [][/\ \A w \in DOMAIN eves' \ DOMAIN eves :
                /\ outcome'.event \in {"CreateNotify", "PropertyNotify"}
                /\ outcome'.target = w
                /\ outcome'.result = "Ok"
          /\ \A w \in DOMAIN eves \ DOMAIN eves' :
                outcome'.event = "DestroyNotify" /\ outcome'.target = w
          /\ outcome'.event = "DestroyNotify"
                => \A w \in RegistryWindows :
                      DestroyNotifyOn(w) => w \notin DOMAIN eves']_vars

\* A tracked window has been destroyed while another stays tracked.
C22_Witness ==
    /\ outcome.event = "DestroyNotify"
    /\ outcome.target \in RegistryWindows \ DOMAIN eves
    /\ DOMAIN eves # {}

\* C23: when a call of a collaborator fails while an event is handled,
\* every tracked thumbnail is as it was before the event.
C23_FailedEventSkipped ==
    [][outcome'.result = "Err" => eves' = eves]_vars

\* C24: CreateNotify for a window that is found not to be an EVE window
\* leaves the registry as it was; for a window found to be one with a
\* name, the registry holds the window afterwards under that name, at the
\* position get_position gives for the name and the window (the centre
\* when it gives none), and the other entries are as they were.
C24_CreatedAtResolvedPosition ==
    [][\A w \in RegistryWindows, wine \in WineResults,
          probe \in IsWindowEveResults :
          (/\ outcome'.event = "CreateNotify"
           /\ probe.ok
           /\ CreateNotifyOn(w, wine, probe, TRUE))
          => IF wine = "other" \/ ~probe.eve
             THEN eves' = eves
             ELSE LET pos == get_position(Saved, probe.name, w,
                                          as_tuples(character_positions))
                  IN  /\ DOMAIN eves' = DOMAIN eves \cup {w}
                      /\ eves'[w].character_name = probe.name
                      /\ <<eves'[w].x, eves'[w].y>> =
                           IF pos = NonePos THEN Centre ELSE pos
                      /\ \A v \in DOMAIN eves \ {w} : eves'[v] = eves[v]]_vars

\* A CreateNotify has put a window into the registry under a name with a
\* persisted position, at that position.
C24_Witness ==
    /\ outcome.event = "CreateNotify"
    /\ outcome.result = "Ok"
    /\ outcome.target \in DOMAIN eves
    /\ eves[outcome.target].character_name \in DOMAIN character_positions
    /\ <<eves[outcome.target].x, eves[outcome.target].y>> =
         position(character_positions[eves[outcome.target].character_name])
    /\ <<eves[outcome.target].x, eves[outcome.target].y>> # Centre

\* C25: a PropertyNotify of WM_NAME for a tracked window that is found to
\* be an EVE window with a name changes that thumbnail's character_name
\* and nothing else in the registry; for an untracked window it has the
\* effect on the registry, and the result, that a CreateNotify for the
\* window has.
C25_RenameInPlace ==
    /\ [](\A w \in RegistryWindows \ DOMAIN eves, wine \in WineResults,
             probe \in IsWindowEveResults, requests_ok \in BOOLEAN :
             LET created ==
                   check_and_create_window(Saved, character_positions, w,
                                           wine, probe, requests_ok)
                 renamed == property_notify(eves, w, "wm_name", probe,
                                            created, FALSE, requests_ok)
             IN  /\ renamed.eves = create_notify(eves, w, created).eves
                 /\ renamed.result = create_notify(eves, w, created).result)
    /\ [][\A w \in DOMAIN eves, probe \in IsWindowEveResults,
             requests_ok \in BOOLEAN :
             (/\ outcome'.event = "PropertyNotify"
              /\ outcome'.target = w
              /\ (outcome'.result = "Ok") = requests_ok
              /\ probe.ok /\ probe.eve
              /\ PropertyNotifyOn(w, "wm_name", "wine", probe, FALSE,
                                  requests_ok))
             => eves' = [eves EXCEPT ![w].character_name = probe.name]]_vars

\* A focused thumbnail carries a name with a persisted position but is
\* not at that position: it was given the name after it was built.
C25_Witness ==
    /\ outcome.event = "PropertyNotify"
    /\ outcome.result = "Ok"
    /\ outcome.target \in DOMAIN eves
    /\ eves[outcome.target].focused
    /\ eves[outcome.target].character_name \in DOMAIN character_positions
    /\ <<eves[outcome.target].x, eves[outcome.target].y>> = Centre

\* C28: FocusIn for a tracked window leaves it not minimized and focused,
\* with the border requested; with hide_when_no_focus set and a thumbnail
\* not visible before, every thumbnail is visible after an event handled
\* to the end; with hide_when_no_focus unset no thumbnail's visibility
\* changes.
C28_FocusInShowsAll ==
    [][\A w \in DOMAIN eves :
          FocusInOn(w)
          => /\ ~eves'[w].minimized
             /\ eves'[w].focused
             /\ outcome'.border = <<w, TRUE>>
             /\ (/\ hide_when_no_focus
                 /\ \E v \in DOMAIN eves : ~eves[v].visible
                 /\ outcome'.result = "Ok")
                => \A v \in DOMAIN eves' : eves'[v].visible
             /\ ~hide_when_no_focus
                => \A v \in DOMAIN eves :
                      eves'[v].visible = eves[v].visible]_vars

\* A FocusIn has been handled with the policy on and two windows
\* tracked, all visible, another one than the focused one minimized.
C28_Witness ==
    /\ outcome.event = "FocusIn"
    /\ outcome.result = "Ok"
    /\ outcome.target \in DOMAIN eves
    /\ hide_when_no_focus
    /\ \A v \in DOMAIN eves : eves[v].visible
    /\ \E v \in DOMAIN eves \ {outcome.target} : eves[v].minimized

\* No tracked window is focused or minimized once window has lost the
\* focus.
Quiet(registry, window) ==
    \A v \in DOMAIN registry :
       /\ v # window => ~registry[v].focused
       /\ ~registry[v].minimized

\* C29: FocusOut for a tracked window leaves it not focused, with the
\* border removed; with hide_when_no_focus set, and no tracked window
\* focused or minimized after that, every thumbnail is hidden after an
\* event handled to the end; otherwise no thumbnail's visibility changes.
C29_FocusOutHidesAll ==
    [][\A w \in DOMAIN eves :
          FocusOutOn(w)
          => /\ ~eves'[w].focused
             /\ outcome'.border = <<w, FALSE>>
             /\ IF hide_when_no_focus /\ Quiet(eves, w)
                THEN outcome'.result = "Ok"
                     => \A v \in DOMAIN eves' : ~eves'[v].visible
                ELSE \A v \in DOMAIN eves :
                        eves'[v].visible = eves[v].visible]_vars

\* A FocusOut has been handled with the policy on; a window is minimized
\* and none is focused, and a thumbnail is visible.
C29_Witness ==
    /\ outcome.event = "FocusOut"
    /\ outcome.result = "Ok"
    /\ outcome.target \in DOMAIN eves
    /\ hide_when_no_focus
    /\ \A v \in DOMAIN eves : ~eves[v].focused
    /\ \E v \in DOMAIN eves : eves[v].minimized
    /\ \E v \in DOMAIN eves : eves[v].visible

\* C30: a PropertyNotify of _NET_WM_STATE for a tracked window, handled
\* to the end, sets the thumbnail's minimized flag when the state holds
\* the hidden marker and changes nothing when it does not; a thumbnail
\* that is minimized stays so until a FocusIn for its window.
C30_MinimizedUntilFocusIn ==
    [][/\ \A w \in DOMAIN eves, hidden \in BOOLEAN :
             (/\ outcome'.event = "PropertyNotify"
              /\ PropertyNotifyOn(w, "net_wm_state", "wine", NoProbe,
                                  hidden, TRUE))
             => eves' = IF hidden
                        THEN [eves EXCEPT ![w].minimized = TRUE]
                        ELSE eves
       /\ \A w \in DOMAIN eves \cap DOMAIN eves' :
             (eves[w].minimized /\ ~eves'[w].minimized)
             => outcome'.event = "FocusIn" /\ outcome'.target = w]_vars

\* A focused thumbnail has been marked minimized, and the last event was
\* a PropertyNotify for it.
C30_Witness ==
    /\ outcome.event = "PropertyNotify"
    /\ outcome.result = "Ok"
    /\ outcome.target \in DOMAIN eves
    /\ eves[outcome.target].minimized
    /\ eves[outcome.target].focused

\* The windows whose thumbnail is dragging.
Dragging(registry) ==
    {w \in DOMAIN registry : registry[w].input_state.dragging}

\* C26: a ButtonPress at (x, y) changes at most one thumbnail, one that
\* is visible and whose bounds contain (x, y), and changes only its input
\* state: to dragging, with (x, y) as drag start and the thumbnail's
\* position as window start; when no visible thumbnail's bounds contain
\* (x, y) it changes none.
C26_PressStartsOneDrag ==
    [][\A x \in LineXs, y \in LineYs :
          ButtonPressAt(x, y)
          => LET changed == {w \in DOMAIN eves : eves'[w] # eves[w]}
             IN  /\ DOMAIN eves' = DOMAIN eves
                 /\ Cardinality(changed) <= 1
                 /\ \A w \in changed :
                       /\ eves[w].visible
                       /\ is_hovered(eves[w], x, y)
                       /\ eves'[w] =
                            [eves[w] EXCEPT !.input_state =
                               InputState(TRUE, <<x, y>>,
                                          <<eves[w].x, eves[w].y>>)]
                 /\ (\A w \in DOMAIN eves :
                        ~(eves[w].visible /\ is_hovered(eves[w], x, y)))
                    => changed = {}]_vars

\* A ButtonPress under which two thumbnails lie, both visible, has
\* started the drag of one and left the other idle.
C26_Witness ==
    /\ outcome.event = "ButtonPress"
    /\ outcome.result = "Ok"
    /\ outcome.target \in DOMAIN eves
    /\ eves[outcome.target].input_state.dragging
    /\ \E w \in DOMAIN eves \ {outcome.target} :
          /\ eves[w].visible
          /\ ~eves[w].input_state.dragging
          /\ is_hovered(eves[w], eves[outcome.target].input_state.drag_start[1],
                        eves[outcome.target].input_state.drag_start[2])

\* C27: after the DestroyNotify of a window that was dragging, the
\* MotionNotify events that follow and the ButtonRelease that ends them
\* change no thumbnail and raise no window.
C27_DestroyedMidDrag ==
    [][(/\ outcome.mid_drag
        /\ outcome'.event \in {"MotionNotify", "ButtonRelease"})
       => /\ eves' = eves
          /\ outcome'.focus = None
          /\ outcome'.reposition = NonePos]_vars

\* C31: a cycle_forward or cycle_backward call made while active_windows
\* is not empty returns a window; it returns None only when no character
\* has a window.
C31_CycleFindsWindow ==
    (last.op \in {"cycle_forward", "cycle_backward"})
    => (last.ret = None <=> DOMAIN active_windows = {})

\* A cycle call has returned a window although some name of the order
\* has none.
C31_Witness ==
    /\ last.op \in {"cycle_forward", "cycle_backward"}
    /\ last.ret # None
    /\ \E i \in 1..Len(config_order) :
          config_order[i] \notin DOMAIN active_windows

\* C37: from every reachable state cycle_forward and cycle_backward
\* return, after at most Len(config_order) iterations of their loop.
C37_CycleTerminates ==
    /\ cycle_forward(Cur).returns
    /\ cycle_forward(Cur).steps <= Len(config_order)
    /\ cycle_backward(Cur).returns
    /\ cycle_backward(Cur).steps <= Len(config_order)

\* After a cycle call the cursor is on the only name with a window, among
\* several names: the next call, in either direction, goes once round
\* the whole order.
C37_Witness ==
    /\ last.op \in {"cycle_forward", "cycle_backward"}
    /\ Len(config_order) >= 2
    /\ cycle_forward(Cur).steps = Len(config_order)
    /\ cycle_backward(Cur).steps = Len(config_order)

\* C32: update_position for a non-empty name records the geometry under
\* the name in character_positions, whether save() succeeds or fails, and
\* returns what save() returned; for the empty name it records nothing,
\* does not call save() and returns Ok.
C32_UpdatePositionRecords ==
    [][\A character_name \in Characters, pos \in Positions,
          written \in BOOLEAN :
          UpdatePositionOn(character_name, pos, written)
          => IF character_name # ""
             THEN /\ DOMAIN character_positions' =
                       DOMAIN character_positions \cup {character_name}
                  /\ character_positions'[character_name] =
                       CharacterSettings(pos[1], pos[2], CurrentDims[1],
                                         CurrentDims[2])
                  /\ \A n \in DOMAIN character_positions \ {character_name} :
                        character_positions'[n] = character_positions[n]
                  /\ pcall'.save = Save(written)
                  /\ pcall'.ok = written
             ELSE /\ character_positions' = character_positions
                  /\ pcall'.save = "none"
                  /\ pcall'.ok]_vars

\* An update_position whose save() failed has recorded the geometry.
C32_Witness ==
    /\ pcall.op = "update_position"
    /\ pcall.name # ""
    /\ pcall.save = "failed"
    /\ ~pcall.ok
    /\ character_positions[pcall.name] = pcall.geometry

\* C33: handle_character_change returns an error exactly when save()
\* fails; otherwise it returns the position recorded for new_name when
\* new_name is not empty and has a record in character_positions as the
\* call leaves it, and None when new_name is empty or has no record.
C33_ChangeReturnsSavedPosition ==
    [][\A old_name \in Characters, new_name \in Characters,
          pos \in Positions, written \in BOOLEAN :
          HandleCharacterChangeOn(old_name, new_name, pos, written)
          => /\ pcall'.ok = written
             /\ pcall'.ret =
                  IF /\ written
                     /\ new_name # ""
                     /\ new_name \in DOMAIN character_positions'
                  THEN position(character_positions'[new_name])
                  ELSE NonePos]_vars

\* A change from a name to the same name has returned the position it was
\* called with, which the call itself recorded.
C33_Witness ==
    /\ pcall.op = "handle_character_change"
    /\ pcall.ok
    /\ pcall.name # ""
    /\ pcall.new_name = pcall.name
    /\ pcall.ret = position(pcall.geometry)

\* C34: a CreateNotify for a window that is_window_eve finds to be an EVE
\* window is turned down on account of its process only when the window
\* has a process id whose image can be read and is no wine preloader;
\* with no process id, or an unreadable image, the window is tracked.
C34_AmbiguousProcessIsTracked ==
    [][\A w \in RegistryWindows \ DOMAIN eves, prop \in PidProperties,
          exe \in ExeLinks, probe \in IsWindowEveResults :
          (/\ probe.ok /\ probe.eve
           /\ ProbedCreateOn(w, prop, exe, probe, TRUE))
          => (w \notin DOMAIN eves' <=> (prop = "pid" /\ exe = "other"))]_vars

\* A window with no process id, or with an image that cannot be read,
\* has been put into the registry by its CreateNotify.
C34_Witness ==
    /\ outcome.event = "CreateNotify"
    /\ outcome.result = "Ok"
    /\ outcome.target \in DOMAIN eves
    /\ outcome.process \in
         {<<prop, exe>> : prop \in PidProperties, exe \in ExeLinks}
    /\ \/ outcome.process[1] # "pid"
       \/ outcome.process[2] = "unreadable"

\* C35: with snap_threshold 0 a MotionNotify delivered to a dragging
\* thumbnail asks for the position windowStart + (pointerCurrent -
\* pointerStart) exactly, and the thumbnail is there once the request has
\* succeeded, wherever the other thumbnails are.
C35_NoSnapAtZero ==
    [][\A x \in LineXs, y \in LineYs :
          (snap_threshold = 0 /\ MotionNotifyAt(x, y))
          => \A w \in DraggingAt(x, y) :
                outcome'.target = w
                => /\ outcome'.reposition = DragTarget(eves[w], x, y)
                   /\ outcome'.result = "Ok"
                      => <<eves'[w].x, eves'[w].y>> =
                           DragTarget(eves[w], x, y)]_vars

\* With snap_threshold 0 a MotionNotify has moved a thumbnail to one
\* pixel beside another thumbnail, off the position it had.
C35_Witness ==
    /\ snap_threshold = 0
    /\ outcome.event = "MotionNotify"
    /\ outcome.result = "Ok"
    /\ outcome.target \in DOMAIN eves
    /\ outcome.reposition = <<eves[outcome.target].x, eves[outcome.target].y>>
    /\ eves[outcome.target].input_state.win_start # outcome.reposition
    /\ \E v \in DOMAIN eves \ {outcome.target} :
          eves[v].x - eves[outcome.target].x \in {-1, 1}

\* C36: a DamageNotify or a MotionNotify makes no call that saves: the
\* persisted character settings, the session positions and the record of
\* the last call on them are as before the event.
C36_FrequentEventsDoNotPersist ==
    [][(\/ \E x \in PointerXs, y \in PointerYs : MotionNotifyAt(x, y)
        \/ \E damage \in RegistryWindows, requests_ok \in BOOLEAN :
              DamageNotifyOn(damage, requests_ok))
       => /\ character_positions' = character_positions
          /\ window_positions' = window_positions
          /\ pcall' = pcall]_vars

\* A MotionNotify has moved the thumbnail of a logged-in character, and
\* no settings are recorded for it.
C36_Witness ==
    /\ outcome.event = "MotionNotify"
    /\ outcome.result = "Ok"
    /\ outcome.target \in DOMAIN eves
    /\ eves[outcome.target].character_name # ""
    /\ eves[outcome.target].input_state.win_start # outcome.reposition
    /\ eves[outcome.target].character_name \notin DOMAIN character_positions
    /\ pcall = NoCall

\* C38: at most one tracked window is dragging.
C38_OneDragAtATime == Cardinality(Dragging(eves)) <= 1

\* ------------------------------------------------- the manager's frame loop

\* The most daemons the manager spawns in a run of the model.
MaxSpawn == 2

\* The outcomes of the calls a frame makes and the button clicked in it, at
\* most one of "restart" and "hide": try_wait() is called only when the
\* interval has elapsed, wait() and spawn() only on a restart.
FrameInputs ==
    {input \in [elapsed : BOOLEAN, try_wait_ok : BOOLEAN,
                click : {"none", "restart", "hide"},
                wait_ok : BOOLEAN, spawn_ok : BOOLEAN] :
        /\ ~input.elapsed => input.try_wait_ok
        /\ input.click # "restart" => (input.wait_ok /\ input.spawn_ok)}

\* One frame, ManagerApp::update(ctx, frame): the close request, the tray
\* commands, the health check, and the buttons of a visible window.
UpdateOn(elapsed, try_wait_ok, click, wait_ok, spawn_ok) ==
    /\ ~exiting
    /\ (click = "restart" /\ spawn_ok) => Len(children) < MaxSpawn
    /\ LET decision == close_request(close_requested, allow_close)
           window == process_tray_commands(
                         [window_visible |-> window_visible,
                          allow_close |-> allow_close,
                          close_requested |-> FALSE], tray_rx)
           polled == poll_daemon(ManagerApp, elapsed, try_wait_ok)
           drawn == IF click = "restart"
                    THEN restart_daemon(polled, wait_ok, spawn_ok)
                    ELSE polled
       IN  IF decision = "cancelled"
           THEN /\ close_requested' = FALSE
                /\ window_visible' = FALSE
                /\ frame' = [close |-> decision, cancelled |-> TRUE]
                /\ UNCHANGED <<daemon, daemon_status, status_message,
                               children, allow_close, tray_rx, exiting>>
           ELSE /\ click # "none" => window.window_visible
                /\ tray_rx' = <<>>
                /\ allow_close' = window.allow_close
                /\ close_requested' = window.close_requested
                /\ window_visible' =
                       (window.window_visible /\ click # "hide")
                /\ daemon' = drawn.daemon
                /\ daemon_status' = drawn.daemon_status
                /\ status_message' = drawn.status_message
                /\ children' = drawn.children
                /\ exiting' = (decision = "proceeds")
                /\ frame' = [frame EXCEPT !.close = decision]
    /\ UNCHANGED <<tray, exited>>
    /\ UNCHANGED <<navVars, positionVars, eventVars>>

update ==
    \E input \in FrameInputs :
        UpdateOn(input.elapsed, input.try_wait_ok, input.click,
                 input.wait_ok, input.spawn_ok)

\* ManagerApp::on_exit(gl), once the frame loop has ended.
on_exit ==
    /\ exiting
    /\ ~exited
    /\ \E wait_ok \in BOOLEAN :
        LET stopped == stop_daemon(ManagerApp, wait_ok).self
        IN  /\ daemon' = stopped.daemon
            /\ daemon_status' = stopped.daemon_status
            /\ status_message' = stopped.status_message
            /\ children' = stopped.children
    /\ exited' = TRUE
    /\ UNCHANGED <<window_visible, allow_close, tray, tray_rx,
                   close_requested, exiting, frame>>
    /\ UNCHANGED <<navVars, positionVars, eventVars>>

\* A click on an item of the tray menu sends its command into the channel.
TrayMenu ==
    /\ tray
    /\ ~exiting
    /\ Len(tray_rx) < TrayCapacity
    /\ \E command \in {"ToggleWindow", "Quit"} :
        tray_rx' = Append(tray_rx, command)
    /\ UNCHANGED <<daemon, daemon_status, status_message, window_visible,
                   allow_close, tray, children, close_requested, exiting,
                   exited, frame>>
    /\ UNCHANGED <<navVars, positionVars, eventVars>>

\* The user, or the window manager, asks the manager window to close.
CloseRequested ==
    /\ ~exiting
    /\ ~close_requested
    /\ close_requested' = TRUE
    /\ UNCHANGED <<daemon, daemon_status, status_message, window_visible,
                   allow_close, tray, tray_rx, children, exiting, exited,
                   frame>>
    /\ UNCHANGED <<navVars, positionVars, eventVars>>

\* The daemon process ends by itself, with exit status 0 or 1.
DaemonExits ==
    /\ ~exited
    /\ \E pid \in DOMAIN children, state \in {"exit0", "exit1"} :
        /\ children[pid] = "alive"
        /\ children' = [children EXCEPT ![pid] = state]
    /\ UNCHANGED <<daemon, daemon_status, status_message, window_visible,
                   allow_close, tray, tray_rx, close_requested, exiting,
                   exited, frame>>
    /\ UNCHANGED <<navVars, positionVars, eventVars>>

InitManager ==
    /\ NavIdle
    /\ PositionsIdle
    /\ EventsIdle
    /\ \E tray_ok \in BOOLEAN, spawn_ok \in BOOLEAN :
        ManagerNew(tray_ok, spawn_ok)

NextManager ==
    \/ update
    \/ on_exit
    \/ TrayMenu
    \/ CloseRequested
    \/ DaemonExits

\* The manager process alone: its frames, its tray, and its daemon.
SpecManager == InitManager /\ [][NextManager]_vars

\* The spawned processes that are alive.
Alive(processes) == {pid \in DOMAIN processes : processes[pid] = "alive"}

\* C39: in the manager, after any sequence of start_daemon, stop_daemon,
\* restart_daemon and poll_daemon calls, a daemon child handle is held
\* exactly when daemon_status is Starting or Running, and start_daemon with
\* a handle held spawns no second daemon.
C39_HandleIffStartingOrRunning ==
    /\ (daemon # NoChild) <=> (daemon_status \in {<<"Starting">>, <<"Running">>})
    /\ (daemon # NoChild) =>
           \A spawn_ok \in BOOLEAN :
               start_daemon(ManagerApp, spawn_ok).self = ManagerApp
    /\ Cardinality(Alive(children)) <= 1

\* C40: a close request that no tray Quit preceded never closes the manager:
\* the frame cancels it, hides the window and leaves the daemon as it was;
\* only a Quit sets allow_close, only with allow_close does a close request
\* end the frame loop, and on_exit then leaves no daemon held or alive.
C40_CloseNeedsQuit ==
    [][/\ (close_requested /\ ~allow_close /\ update)
              => /\ ~exiting'
                 /\ ~close_requested'
                 /\ ~window_visible'
                 /\ ~allow_close'
                 /\ daemon' = daemon
                 /\ daemon_status' = daemon_status
                 /\ children' = children
       /\ (allow_close' /\ ~allow_close)
              => \E i \in DOMAIN tray_rx : tray_rx[i] = "Quit"
       /\ (exiting' /\ ~exiting) => (allow_close /\ close_requested)
       /\ (exited' /\ ~exited)
              => (exiting /\ daemon' = NoChild /\ Alive(children') = {})
      ]_vars

C40_Witness ==
    /\ exited
    /\ frame.cancelled
    /\ frame.close = "proceeds"
    /\ daemon = NoChild
    /\ \E pid \in DOMAIN children : children[pid] = "killed"

====
